---------------------------- MODULE Spec2Model ----------------------------
(***************************************************************************)
(* A model of the tolerant XML reader/writer (src/src/parser.ts,           *)
(* src/src/serialize.ts, src/src/chars.ts).                                *)
(*                                                                         *)
(* A JavaScript string is a sequence of UTF-16 code units (integers).      *)
(* Offsets are 0-based as in the source.  JavaScript values are tagged     *)
(* records: [js |-> "string", v |-> <<...>>], [js |-> "null"],             *)
(* [js |-> "boolean", v |-> TRUE], [js |-> "number", v |-> 1],             *)
(* [js |-> "array", v |-> <<...>>] and objects [js |-> "object", ...] that *)
(* carry their properties as further record fields.  The `type`            *)
(* discriminant of a node is a string value whose payload is written as a  *)
(* TLA+ string ("element", "text", ...).                                   *)
(***************************************************************************)
EXTENDS Integers, Sequences, FiniteSets, TLC

\* ------------------------------------------------------------------------
\* JavaScript values
\* ------------------------------------------------------------------------

Null == [js |-> "null"]
Str(s) == [js |-> "string", v |-> s]
Bool(b) == [js |-> "boolean", v |-> b]
Arr(a) == [js |-> "array", v |-> a]

\* `const v = e; body`: the value of e bound to the parameter of F
Let(e, F(_)) == F(e)

\* charCodeAt past the end gives NaN and src[pos] gives undefined: one value
\* that is no code unit and fails every comparison.
NoChar == 0 - 1

\* ------------------------------------------------------------------------
\* String primitives of the host language
\* ------------------------------------------------------------------------

CharCodeAt(s, i) == IF i >= 0 /\ i < Len(s) THEN s[i + 1] ELSE NoChar

\* s.slice(a, b) for 0 <= a, b
Slice(s, a, b) == IF a < b THEN SubSeq(s, a + 1, IF b < Len(s) THEN b ELSE Len(s)) ELSE <<>>

\* s.slice(a)
SliceFrom(s, a) == Slice(s, a, Len(s))

\* s.startsWith(str, p)
StartsWith(s, str, p) ==
    /\ p + Len(str) <= Len(s)
    /\ \A k \in 1..Len(str) : s[p + k] = str[k]

\* s.indexOf(str, p): -1 when absent
RECURSIVE IndexOf(_, _, _)
IndexOf(s, str, p) ==
    IF p + Len(str) > Len(s) THEN 0 - 1
    ELSE IF StartsWith(s, str, p) THEN p
    ELSE IndexOf(s, str, p + 1)

\* s.split(sep).join(by): every occurrence of sep, left to right, replaced
RECURSIVE ReplaceAll(_, _, _)
ReplaceAll(s, sep, by) ==
    Let(IndexOf(s, sep, 0), LAMBDA i :
        IF i = 0 - 1 THEN s
        ELSE Slice(s, 0, i) \o by \o ReplaceAll(SliceFrom(s, i + Len(sep)), sep, by))

\* ------------------------------------------------------------------------
\* chars.ts
\* ------------------------------------------------------------------------

isXmlWhitespace(code) == code = 32 \/ code = 9 \/ code = 10 \/ code = 13

isNameStartChar(code) ==
    IF code = NoChar THEN FALSE
    ELSE IF code < 65 THEN code = 58 \/ code = 95
    ELSE IF code <= 90 THEN TRUE
    ELSE IF code < 97 THEN FALSE
    ELSE IF code <= 122 THEN TRUE
    ELSE IF code < 192 THEN FALSE
    ELSE IF code <= 214 THEN TRUE
    ELSE IF code < 216 THEN FALSE
    ELSE IF code <= 246 THEN TRUE
    ELSE IF code < 248 THEN FALSE
    ELSE IF code <= 767 THEN TRUE
    ELSE IF code < 880 THEN FALSE
    ELSE IF code <= 893 THEN TRUE
    ELSE IF code < 895 THEN FALSE
    ELSE IF code <= 8191 THEN TRUE
    ELSE IF code = 8204 \/ code = 8205 THEN TRUE
    ELSE IF code < 8304 THEN FALSE
    ELSE IF code <= 8591 THEN TRUE
    ELSE IF code < 11264 THEN FALSE
    ELSE IF code <= 12271 THEN TRUE
    ELSE IF code < 12289 THEN FALSE
    ELSE IF code <= 55295 THEN TRUE
    ELSE IF code < 63744 THEN FALSE
    ELSE IF code <= 64975 THEN TRUE
    ELSE IF code < 65008 THEN FALSE
    ELSE IF code <= 65533 THEN TRUE
    ELSE IF code < 65536 THEN FALSE
    ELSE code <= 983039

isNameChar(code) ==
    \/ isNameStartChar(code)
    \/ code = 45 \/ code = 46
    \/ (code >= 48 /\ code <= 57)
    \/ code = 183
    \/ (code >= 768 /\ code <= 879)
    \/ (code >= 8255 /\ code <= 8256)

isHexDigit(code) ==
    \/ (code >= 48 /\ code <= 57)
    \/ (code >= 65 /\ code <= 70)
    \/ (code >= 97 /\ code <= 102)

isDecimalDigit(code) == code >= 48 /\ code <= 57

\* ------------------------------------------------------------------------
\* parser.ts: constants
\* ------------------------------------------------------------------------

\* 'http://www.w3.org/XML/1998/namespace'
XML_NS == <<104, 116, 116, 112, 58, 47, 47, 119, 119, 119, 46, 119, 51, 46, 111, 114, 103, 47, 88, 77, 76, 47, 49, 57, 57, 56, 47, 110, 97, 109, 101, 115, 112, 97, 99, 101>>

\* 'http://www.w3.org/2000/xmlns/'
XMLNS_NS == <<104, 116, 116, 112, 58, 47, 47, 119, 119, 119, 46, 119, 51, 46, 111, 114, 103, 47, 50, 48, 48, 48, 47, 120, 109, 108, 110, 115, 47>>

\* The string literals the parser compares the input with.
Lit ==
    [ xmlDecl    |-> <<60, 63, 120, 109, 108>>,                       \* '<?xml'
      comment    |-> <<60, 33, 45, 45>>,                             \* '<!--'
      commentEnd |-> <<45, 45, 62>>,                                 \* '-->'
      pi         |-> <<60, 63>>,                                     \* '<?'
      piEnd      |-> <<63, 62>>,                                     \* '?>'
      DOCTYPE    |-> <<60, 33, 68, 79, 67, 84, 89, 80, 69>>,         \* '<!DOCTYPE'
      doctype    |-> <<60, 33, 100, 111, 99, 116, 121, 112, 101>>,   \* '<!doctype'
      cdata      |-> <<60, 33, 91, 67, 68, 65, 84, 65, 91>>,         \* '<![CDATA['
      cdataEnd   |-> <<93, 93, 62>>,                                 \* ']]>'
      close      |-> <<60, 47>>,                                     \* '</'
      selfClose  |-> <<47, 62>>,                                     \* '/>'
      version    |-> <<118, 101, 114, 115, 105, 111, 110>>,          \* 'version'
      encoding   |-> <<101, 110, 99, 111, 100, 105, 110, 103>>,      \* 'encoding'
      standalone |-> <<115, 116, 97, 110, 100, 97, 108, 111, 110, 101>>, \* 'standalone'
      yes        |-> <<121, 101, 115>>,                              \* 'yes'
      no         |-> <<110, 111>>,                                   \* 'no'
      PUBLIC     |-> <<80, 85, 66, 76, 73, 67>>,                     \* 'PUBLIC'
      SYSTEM     |-> <<83, 89, 83, 84, 69, 77>>,                     \* 'SYSTEM'
      unknown    |-> <<117, 110, 107, 110, 111, 119, 110>>,          \* 'unknown'
      piDefault  |-> <<95, 112, 105>>,                               \* '_pi'
      xmlns      |-> <<120, 109, 108, 110, 115>>,                    \* 'xmlns'
      xml        |-> <<120, 109, 108>>,                              \* 'xml'
      v10        |-> <<49, 46, 48>> ]                                \* '1.0'

\* the methods that every object inherits from Object.prototype, but for the
\* constructor
InheritedMethods ==
    { <<104, 97, 115, 79, 119, 110, 80, 114, 111, 112, 101, 114, 116, 121>>,   \* 'hasOwnProperty'
      <<105, 115, 80, 114, 111, 116, 111, 116, 121, 112, 101, 79, 102>>,   \* 'isPrototypeOf'
      <<112, 114, 111, 112, 101, 114, 116, 121, 73, 115, 69, 110, 117, 109, 101, 114, 97, 98, 108, 101>>,   \* 'propertyIsEnumerable'
      <<116, 111, 76, 111, 99, 97, 108, 101, 83, 116, 114, 105, 110, 103>>,   \* 'toLocaleString'
      <<116, 111, 83, 116, 114, 105, 110, 103>>,   \* 'toString'
      <<118, 97, 108, 117, 101, 79, 102>>,   \* 'valueOf'
      <<95, 95, 100, 101, 102, 105, 110, 101, 71, 101, 116, 116, 101, 114, 95, 95>>,   \* '__defineGetter__'
      <<95, 95, 100, 101, 102, 105, 110, 101, 83, 101, 116, 116, 101, 114, 95, 95>>,   \* '__defineSetter__'
      <<95, 95, 108, 111, 111, 107, 117, 112, 71, 101, 116, 116, 101, 114, 95, 95>>,   \* '__lookupGetter__'
      <<95, 95, 108, 111, 111, 107, 117, 112, 83, 101, 116, 116, 101, 114, 95, 95>> }   \* '__lookupSetter__'

\* the text of a built-in function: 'function name() { [native code] }'
nativeCode(name) ==
    <<102, 117, 110, 99, 116, 105, 111, 110, 32>> \o name
    \o <<40, 41, 32, 123, 32, 91, 110, 97, 116, 105, 118, 101, 32, 99, 111, 100, 101, 93, 32, 125>>

\* A variant of the table that knows no entity.  PredefinedEntitiesDecode
\* must fail with it in place of PREDEFINED_ENTITIES.
noEntities(name) == Null

\* PREDEFINED_ENTITIES[name].  The table is an object literal, so a name
\* that is an inherited property of Object.prototype is found as well; the
\* value found is then no string and Array.prototype.join converts it: a
\* method to its text (the constructor is the function Object), __proto__ to
\* '[object Object]'.
PREDEFINED_ENTITIES(name) ==
    CASE name = <<97, 109, 112>> -> Str(<<38>>)                           \* amp  -> '&'
      [] name = <<108, 116>> -> Str(<<60>>)                               \* lt   -> '<'
      [] name = <<103, 116>> -> Str(<<62>>)                               \* gt   -> '>'
      [] name = <<97, 112, 111, 115>> -> Str(<<39>>)                      \* apos -> "'"
      [] name = <<113, 117, 111, 116>> -> Str(<<34>>)                     \* quot -> '"'
      [] name = <<99, 111, 110, 115, 116, 114, 117, 99, 116, 111, 114>> ->
           Str(nativeCode(<<79, 98, 106, 101, 99, 116>>))
      [] name = <<95, 95, 112, 114, 111, 116, 111, 95, 95>> ->
           Str(<<91, 111, 98, 106, 101, 99, 116, 32, 79, 98, 106, 101, 99, 116, 93>>)
      [] name \in InheritedMethods -> Str(nativeCode(name))
      [] OTHER -> Null

\* ------------------------------------------------------------------------
\* parser.ts: cursor helpers (the cursor is passed and returned)
\* ------------------------------------------------------------------------

\* current(): src[pos] ?? ''
current(s, p) == CharCodeAt(s, p)

RECURSIVE skipWhitespace(_, _)
skipWhitespace(s, p) ==
    IF p < Len(s) /\ isXmlWhitespace(CharCodeAt(s, p)) THEN skipWhitespace(s, p + 1) ELSE p

skipToNext(s, ch, p) ==
    Let(IndexOf(s, <<ch>>, p), LAMBDA idx : IF idx = 0 - 1 THEN Len(s) ELSE idx)

\* the end of the run of name characters that starts at p
RECURSIVE nameEnd(_, _)
nameEnd(s, p) ==
    IF p < Len(s) /\ isNameChar(CharCodeAt(s, p)) THEN nameEnd(s, p + 1) ELSE p

\* parseName: ok = FALSE is the ParseError it throws
parseName(s, p) ==
    IF ~isNameStartChar(CharCodeAt(s, p))
    THEN [ok |-> FALSE, name |-> <<>>, pos |-> p]
    ELSE Let(nameEnd(s, p), LAMBDA end : [ok |-> TRUE, name |-> Slice(s, p, end), pos |-> end])

\* tryParseName: ok = FALSE is the null it returns
tryParseName(s, p) ==
    IF ~isNameStartChar(CharCodeAt(s, p))
    THEN [ok |-> FALSE, name |-> <<>>, pos |-> p]
    ELSE Let(nameEnd(s, p), LAMBDA end : [ok |-> TRUE, name |-> Slice(s, p, end), pos |-> end])

\* the QName of a name: split on the first ':'
splitQName(name) ==
    Let(IndexOf(name, <<58>>, 0), LAMBDA colon :
        IF colon # 0 - 1
        THEN [prefix |-> Str(Slice(name, 0, colon)), local |-> SliceFrom(name, colon + 1)]
        ELSE [prefix |-> Null, local |-> name])

parseQName(s, p) ==
    Let(parseName(s, p), LAMBDA n : [ok |-> n.ok, qname |-> splitQName(n.name), pos |-> n.pos])

tryParseQName(s, p) ==
    Let(tryParseName(s, p), LAMBDA n : [ok |-> n.ok, qname |-> splitQName(n.name), pos |-> n.pos])

\* peekKeyword: the upper-cased ASCII letters at i .. p+7, up to the first
\* character that is none
RECURSIVE peekKeywordFrom(_, _, _)
peekKeywordFrom(s, p, i) ==
    IF i < Len(s) /\ i < p + 8
    THEN Let(CharCodeAt(s, i), LAMBDA c :
             IF c >= 65 /\ c <= 90 THEN <<c>> \o peekKeywordFrom(s, p, i + 1)
             ELSE IF c >= 97 /\ c <= 122 THEN <<c - 32>> \o peekKeywordFrom(s, p, i + 1)
             ELSE <<>>)
    ELSE <<>>

peekKeyword(s, p) == peekKeywordFrom(s, p, p)

\* ------------------------------------------------------------------------
\* parser.ts: entity and character references
\* ------------------------------------------------------------------------

\* the end of the run of hexadecimal / decimal digits that starts at p
RECURSIVE hexEnd(_, _)
hexEnd(s, p) ==
    IF p < Len(s) /\ isHexDigit(CharCodeAt(s, p)) THEN hexEnd(s, p + 1) ELSE p

RECURSIVE decEnd(_, _)
decEnd(s, p) ==
    IF p < Len(s) /\ isDecimalDigit(CharCodeAt(s, p)) THEN decEnd(s, p + 1) ELSE p

digitValue(c) ==
    IF c >= 48 /\ c <= 57 THEN c - 48
    ELSE IF c >= 65 /\ c <= 70 THEN c - 55
    ELSE c - 87

\* parseInt(digits, base).  The result is a double, which never wraps; every
\* value above 0x10FFFF is treated alike by the caller and is kept as
\* 0x110000.
RECURSIVE parseIntFrom(_, _, _)
parseIntFrom(digits, base, acc) ==
    IF digits = <<>> THEN acc
    ELSE Let(acc * base + digitValue(Head(digits)), LAMBDA n :
             parseIntFrom(Tail(digits), base, IF n > 1114111 THEN 1114112 ELSE n))

parseInt(digits, base) == parseIntFrom(digits, base, 0)

\* String.fromCodePoint(cp), 0 < cp <= 0x10FFFF: a surrogate pair above the BMP
fromCodePoint(cp) ==
    IF cp <= 65535 THEN <<cp>>
    ELSE <<55296 + ((cp - 65536) \div 1024), 56320 + ((cp - 65536) % 1024)>>

\* A variant of parseCharRef without the guard against surrogates and
\* invalid code points.  CharRefsNeverFail must fail with it in place of
\* parseCharRef.
parseCharRefUnguarded(s, p) ==
    Let(current(s, p) = 120 \/ current(s, p) = 88, LAMBDA isHex :
    Let(IF isHex THEN hexEnd(s, p + 1) ELSE decEnd(s, p), LAMBDA stop :
    Let(Slice(s, IF isHex THEN p + 1 ELSE p, stop), LAMBDA digits :
        [value |-> fromCodePoint(IF Len(digits) > 0
                                 THEN parseInt(digits, IF isHex THEN 16 ELSE 10) ELSE 65533),
         pos |-> IF current(s, stop) = 59 THEN stop + 1 ELSE stop])))

\* parseCharRef, the cursor after '&#'
parseCharRef(s, p) ==
    Let(current(s, p) = 120 \/ current(s, p) = 88, LAMBDA isHex :
    Let(IF isHex THEN hexEnd(s, p + 1) ELSE decEnd(s, p), LAMBDA stop :
    Let(Slice(s, IF isHex THEN p + 1 ELSE p, stop), LAMBDA digits :
    Let(IF Len(digits) > 0 THEN parseInt(digits, IF isHex THEN 16 ELSE 10) ELSE 65533,
        LAMBDA codePoint :
    Let(IF current(s, stop) = 59 THEN stop + 1 ELSE stop, LAMBDA after :
        IF codePoint > 1114111 \/ (codePoint >= 55296 /\ codePoint <= 57343) \/ codePoint = 0
        THEN [value |-> <<65533>>, pos |-> after]
        ELSE [value |-> fromCodePoint(codePoint), pos |-> after])))))

\* parseEntityRef, the cursor on '&'
parseEntityRef(s, p) ==
    IF current(s, p + 1) = 35 THEN parseCharRef(s, p + 2)
    ELSE Let(nameEnd(s, p + 1), LAMBDA stop :
         Let(Slice(s, p + 1, stop), LAMBDA name :
         Let(IF current(s, stop) = 59 THEN stop + 1 ELSE stop, LAMBDA after :
         Let(PREDEFINED_ENTITIES(name), LAMBDA resolved :
             IF resolved # Null THEN [value |-> resolved.v, pos |-> after]
             ELSE IF Len(name) = 0 THEN [value |-> <<38>>, pos |-> after]
             ELSE [value |-> <<38>> \o name \o <<59>>, pos |-> after]))))

\* ------------------------------------------------------------------------
\* parser.ts: text and attribute values
\* ------------------------------------------------------------------------

nextSpecialInText(s, p) ==
    Let(IndexOf(s, <<60>>, p), LAMBDA lt :
    Let(IndexOf(s, <<38>>, p), LAMBDA amp :
        IF lt = 0 - 1 /\ amp = 0 - 1 THEN 0 - 1
        ELSE IF lt = 0 - 1 THEN amp
        ELSE IF amp = 0 - 1 THEN lt
        ELSE IF lt < amp THEN lt ELSE amp))

\* parts.push(part) followed by the rest of a loop: the part goes in front
joined(part, rest) == [value |-> part \o rest.value, pos |-> rest.pos]

\* the loop of parseText: the decoded parts joined, and the cursor at its end
RECURSIVE textLoop(_, _)
textLoop(s, p) ==
    IF p < Len(s) /\ current(s, p) # 60
    THEN IF current(s, p) = 38
         THEN Let(parseEntityRef(s, p), LAMBDA e : joined(e.value, textLoop(s, e.pos)))
         ELSE Let(nextSpecialInText(s, p), LAMBDA next :
              Let(IF next = 0 - 1 THEN Len(s) ELSE next, LAMBDA end :
                  joined(Slice(s, p, end), textLoop(s, end))))
    ELSE [value |-> <<>>, pos |-> p]

parseText(s, p) ==
    Let(textLoop(s, p), LAMBDA r :
        [node |-> [js |-> "object", type |-> Str("text"), value |-> Str(r.value)], pos |-> r.pos])

\* the end of a literal run in a quoted value, from indexOf(ch) and indexOf('&')
quotedRunEnd(s, next, amp) ==
    IF next = 0 - 1 THEN Len(s)
    ELSE IF amp # 0 - 1 /\ amp < next THEN amp
    ELSE next

\* the loop of parseQuotedValue, ch the opening quote
RECURSIVE quotedLoop(_, _, _)
quotedLoop(s, p, ch) ==
    IF p < Len(s) /\ current(s, p) # ch
    THEN IF current(s, p) = 38
         THEN Let(parseEntityRef(s, p), LAMBDA e : joined(e.value, quotedLoop(s, e.pos, ch)))
         ELSE Let(quotedRunEnd(s, IndexOf(s, <<ch>>, p), IndexOf(s, <<38>>, p)), LAMBDA end :
                  joined(Slice(s, p, end), quotedLoop(s, end, ch)))
    ELSE [value |-> <<>>, pos |-> p]

\* A variant of parseQuotedValue that steps over a closing quote without
\* asking whether one is there.  CursorMovesForwardInBounds must fail with it
\* in place of parseQuotedValue.
parseQuotedValueToQuote(s, p) ==
    Let(current(s, p), LAMBDA ch :
        IF ch # 34 /\ ch # 39 THEN [value |-> <<>>, pos |-> p]
        ELSE Let(quotedLoop(s, p + 1, ch), LAMBDA r : [value |-> r.value, pos |-> r.pos + 1]))

parseQuotedValue(s, p) ==
    Let(current(s, p), LAMBDA ch :
        IF ch # 34 /\ ch # 39 THEN [value |-> <<>>, pos |-> p]
        ELSE Let(quotedLoop(s, p + 1, ch), LAMBDA r :
                 [value |-> r.value, pos |-> IF r.pos < Len(s) THEN r.pos + 1 ELSE r.pos]))

RECURSIVE bareEnd(_, _)
bareEnd(s, p) ==
    IF /\ p < Len(s)
       /\ ~isXmlWhitespace(CharCodeAt(s, p))
       /\ current(s, p) # 62
       /\ ~StartsWith(s, Lit.selfClose, p)
    THEN bareEnd(s, p + 1)
    ELSE p

parseQuotedValueOrBare(s, p) ==
    IF current(s, p) = 34 \/ current(s, p) = 39 THEN parseQuotedValue(s, p)
    ELSE Let(bareEnd(s, p), LAMBDA end : [value |-> Slice(s, p, end), pos |-> end])

\* ------------------------------------------------------------------------
\* parser.ts: leaf nodes.  Each returns the node and the cursor after it.
\* ------------------------------------------------------------------------

\* a node with one string property besides its type
Leaf(type, value) == [js |-> "object", type |-> Str(type), value |-> Str(value)]

\* A variant of parseComment that ends the comment at the first '--'.
\* SectionsAreVerbatim must fail with it in place of parseComment.
parseCommentToDashes(s, p) ==
    Let(IndexOf(s, <<45, 45>>, p + 4), LAMBDA end :
        IF end = 0 - 1
        THEN [node |-> Leaf("comment", SliceFrom(s, p + 4)), pos |-> Len(s)]
        ELSE [node |-> Leaf("comment", Slice(s, p + 4, end)), pos |-> end + 3])

\* parseComment, the cursor on '<!--'
parseComment(s, p) ==
    Let(IndexOf(s, Lit.commentEnd, p + 4), LAMBDA end :
        IF end = 0 - 1
        THEN [node |-> Leaf("comment", SliceFrom(s, p + 4)), pos |-> Len(s)]
        ELSE [node |-> Leaf("comment", Slice(s, p + 4, end)), pos |-> end + 3])

\* parseCData, the cursor on '<![CDATA['
parseCData(s, p) ==
    Let(IndexOf(s, Lit.cdataEnd, p + 9), LAMBDA end :
        IF end = 0 - 1
        THEN [node |-> Leaf("cdata", SliceFrom(s, p + 9)), pos |-> Len(s)]
        ELSE [node |-> Leaf("cdata", Slice(s, p + 9, end)), pos |-> end + 3])

\* WhiteSpace and LineTerminator of the language, which String.trimEnd removes
isJsWhitespace(c) ==
    \/ c \in {9, 10, 11, 12, 13, 32, 160, 5760, 8232, 8233, 8239, 8287, 12288, 65279}
    \/ (c >= 8192 /\ c <= 8202)

RECURSIVE trimEnd(_)
trimEnd(str) ==
    IF Len(str) > 0 /\ isJsWhitespace(str[Len(str)])
    THEN trimEnd(SubSeq(str, 1, Len(str) - 1))
    ELSE str

\* the data of a processing instruction and the cursor after it, the cursor
\* after the target
piData(s, p) ==
    IF p < Len(s) /\ isXmlWhitespace(CharCodeAt(s, p))
    THEN Let(skipWhitespace(s, p), LAMBDA from :
         Let(IndexOf(s, Lit.piEnd, from), LAMBDA end :
             IF end = 0 - 1
             THEN [value |-> SliceFrom(s, from), pos |-> Len(s)]
             ELSE [value |-> trimEnd(Slice(s, from, end)), pos |-> end + 2]))
    ELSE [value |-> <<>>, pos |-> IF StartsWith(s, Lit.piEnd, p) THEN p + 2 ELSE p]

\* parseProcessingInstruction, the cursor on '<?'
parseProcessingInstruction(s, p) ==
    Let(tryParseName(s, p + 2), LAMBDA n :
    Let(piData(s, n.pos), LAMBDA d :
        [node |-> [js |-> "object", type |-> Str("processing-instruction"),
                   target |-> Str(IF n.ok THEN n.name ELSE Lit.piDefault),
                   data |-> Str(d.value)],
         pos |-> d.pos]))

\* ------------------------------------------------------------------------
\* parser.ts: prolog
\* ------------------------------------------------------------------------

\* A variant of isXmlDeclStart that takes every '<?xml' for the declaration.
\* DocumentHasPrologShape must fail with it in place of isXmlDeclStart.
isXmlDeclStartAlways(s, p) == TRUE

isXmlDeclStart(s, p) ==
    Let(CharCodeAt(s, p + 5), LAMBDA c : isXmlWhitespace(c) \/ c = 63)

\* A variant of skipEquals that leaves the '=' where it is.
\* AttributesAreTolerant must fail with it in place of skipEquals.
keepEquals(s, p) == p

\* the cursor after an optional '='
skipEquals(s, p) == IF current(s, p) = 61 THEN p + 1 ELSE p

\* one pseudo-attribute of the XML declaration: `key [=] quoted-value`.
\* found = FALSE leaves the cursor where it was.
declAttr(s, p, key) ==
    IF StartsWith(s, key, p)
    THEN Let(parseQuotedValue(s, skipWhitespace(s, skipEquals(s, skipWhitespace(s, p + Len(key))))),
             LAMBDA q : [found |-> TRUE, value |-> q.value, pos |-> skipWhitespace(s, q.pos)])
    ELSE [found |-> FALSE, value |-> <<>>, pos |-> p]

\* the standalone property from its pseudo-attribute
standaloneOf(sta) ==
    IF ~sta.found THEN Null
    ELSE IF sta.value = Lit.yes THEN Bool(TRUE)
    ELSE IF sta.value = Lit.no THEN Bool(FALSE)
    ELSE Null

\* the cursor after the '?>' (or the lone '>') that closes the declaration
declEnd(s, p) ==
    IF StartsWith(s, Lit.piEnd, p) THEN p + 2
    ELSE IF current(s, p) = 62 THEN p + 1
    ELSE p

\* parseXmlDeclaration, the cursor on '<?xml'
parseXmlDeclaration(s, p) ==
    Let(declAttr(s, skipWhitespace(s, p + 5), Lit.version), LAMBDA ver :
    Let(declAttr(s, ver.pos, Lit.encoding), LAMBDA enc :
    Let(declAttr(s, enc.pos, Lit.standalone), LAMBDA sta :
        [node |-> [js |-> "object", type |-> Str("xml-declaration"),
                   version |-> IF ver.found THEN Str(ver.value) ELSE Str(Lit.v10),
                   encoding |-> IF enc.found THEN Str(enc.value) ELSE Null,
                   standalone |-> standaloneOf(sta)],
         pos |-> declEnd(s, sta.pos)])))

\* A variant of the scan that stops at the first ']', quoted or not.
\* InternalSubsetIsVerbatim must fail with it in place of subsetEnd.
subsetEndAtFirst(s, p) == skipToNext(s, 93, p)

\* the scan for the ']' that ends the internal subset (quoted strings opaque)
RECURSIVE subsetEnd(_, _)
subsetEnd(s, p) ==
    IF p < Len(s) /\ current(s, p) # 93
    THEN IF current(s, p) = 34 \/ current(s, p) = 39
         THEN Let(skipToNext(s, current(s, p), p + 1), LAMBDA q :
                  subsetEnd(s, IF q < Len(s) THEN q + 1 ELSE q))
         ELSE subsetEnd(s, p + 1)
    ELSE p

\* the external identifier of a DOCTYPE, the cursor on the keyword kw
externalId(s, p, kw) ==
    IF kw = Lit.PUBLIC
    THEN Let(parseQuotedValue(s, skipWhitespace(s, p + 6)), LAMBDA pub :
         Let(skipWhitespace(s, pub.pos), LAMBDA after :
             IF current(s, after) = 34 \/ current(s, after) = 39
             THEN Let(parseQuotedValue(s, after), LAMBDA sys :
                      [publicId |-> Str(pub.value), systemId |-> Str(sys.value),
                       pos |-> skipWhitespace(s, sys.pos)])
             ELSE [publicId |-> Str(pub.value), systemId |-> Null, pos |-> after]))
    ELSE IF kw = Lit.SYSTEM
    THEN Let(parseQuotedValue(s, skipWhitespace(s, p + 6)), LAMBDA sys :
             [publicId |-> Null, systemId |-> Str(sys.value),
              pos |-> skipWhitespace(s, sys.pos)])
    ELSE [publicId |-> Null, systemId |-> Null, pos |-> p]

\* the internal subset of a DOCTYPE, the cursor after the external identifier
internalSubsetAt(s, p) ==
    IF current(s, p) = 91
    THEN Let(subsetEnd(s, p + 1), LAMBDA stop :
             [value |-> Str(Slice(s, p + 1, stop)),
              pos |-> skipWhitespace(s, IF current(s, stop) = 93 THEN stop + 1 ELSE stop)])
    ELSE [value |-> Null, pos |-> p]

\* parseDoctype, the cursor on '<!DOCTYPE' (either case).  No call in it throws.
parseDoctype(s, p) ==
    Let(tryParseName(s, skipWhitespace(s, p + 9)), LAMBDA n :
    Let(skipWhitespace(s, n.pos), LAMBDA p1 :
    Let(externalId(s, p1, peekKeyword(s, p1)), LAMBDA ext :
    Let(internalSubsetAt(s, ext.pos), LAMBDA sub :
        [node |-> [js |-> "object", type |-> Str("doctype"),
                   name |-> Str(IF n.ok THEN n.name ELSE Lit.unknown),
                   publicId |-> ext.publicId, systemId |-> ext.systemId,
                   internalSubset |-> sub.value],
         pos |-> IF current(s, sub.pos) = 62 THEN sub.pos + 1 ELSE sub.pos]))))

\* ------------------------------------------------------------------------
\* parser.ts: namespace resolution
\* ------------------------------------------------------------------------

\* the bottom scope of nsStack: the two permanently bound prefixes
seedScope == (Lit.xml :> XML_NS) @@ (Lit.xmlns :> XMLNS_NS)

\* A variant of the search that takes the outermost scope of stack[1..i] that
\* has key.  ResolvesInnermostFirst must fail with it in place of lookupNS.
lookupOutermostFirst(stack, key, i) ==
    IF \E j \in 1..i : key \in DOMAIN stack[j]
    THEN Let(CHOOSE j \in 1..i : key \in DOMAIN stack[j]
                                 /\ \A k \in 1..(j - 1) : key \notin DOMAIN stack[k],
             LAMBDA j : IF stack[j][key] = <<>> THEN Null ELSE Str(stack[j][key]))
    ELSE Null

\* the innermost scope of stack[1..i] that has key, searched from i down
RECURSIVE lookupNS(_, _, _)
lookupNS(stack, key, i) ==
    IF i < 1 THEN Null
    ELSE IF key \in DOMAIN stack[i]
         THEN (IF stack[i][key] = <<>> THEN Null ELSE Str(stack[i][key]))
         ELSE lookupNS(stack, key, i - 1)

\* A variant of resolveNS without its first two lines, which looks the
\* prefixes 'xml' and 'xmlns' up like any other.  ReservedPrefixesAreFixed must
\* fail with it in place of resolveNS.
resolveNSByLookup(stack, prefix, isElement) ==
    IF prefix = Null /\ ~isElement THEN Null
    ELSE lookupNS(stack, IF prefix = Null THEN <<>> ELSE prefix.v, Len(stack))

\* resolveNS(prefix, isElement) against the scope stack
resolveNS(stack, prefix, isElement) ==
    IF prefix = Str(Lit.xml) THEN Str(XML_NS)
    ELSE IF prefix = Str(Lit.xmlns) THEN Str(XMLNS_NS)
    ELSE IF prefix = Null /\ ~isElement THEN Null
    ELSE lookupNS(stack, IF prefix = Null THEN <<>> ELSE prefix.v, Len(stack))

\* ------------------------------------------------------------------------
\* parser.ts: start tag (parseElement up to the choice of self-closing)
\* ------------------------------------------------------------------------

\* nsDecls after the attribute prefix:local = value
declare(nsDecls, prefix, local, value) ==
    IF prefix = Null /\ local = Lit.xmlns THEN (<<>> :> value) @@ nsDecls
    ELSE IF prefix = Str(Lit.xmlns) THEN (local :> value) @@ nsDecls
    ELSE nsDecls

\* the loop that collects the raw attributes and the namespace declarations
RECURSIVE attrLoop(_, _, _, _)
attrLoop(s, p, rawAttrs, nsDecls) ==
    IF p < Len(s) /\ current(s, p) # 62 /\ ~StartsWith(s, Lit.selfClose, p)
    THEN IF ~isNameStartChar(CharCodeAt(s, p))
         THEN attrLoop(s, p + 1, rawAttrs, nsDecls)
         ELSE Let(parseQName(s, p), LAMBDA a :
              Let(parseQuotedValueOrBare(s, skipWhitespace(s, skipEquals(s, skipWhitespace(s, a.pos)))),
                  LAMBDA q :
                  attrLoop(s, skipWhitespace(s, q.pos),
                           Append(rawAttrs, [prefix |-> a.qname.prefix, local |-> a.qname.local,
                                             value |-> q.value]),
                           declare(nsDecls, a.qname.prefix, a.qname.local, q.value))))
    ELSE [rawAttrs |-> rawAttrs, nsDecls |-> nsDecls, pos |-> p]

\* A variant of attrNamespace that resolves an unprefixed attribute as an
\* element is resolved, against the default namespace in scope.
\* UnprefixedAttributesHaveNoNamespace must fail with it in place of
\* attrNamespace.
attrNamespaceWithDefault(stack, prefix, local) ==
    IF prefix = Null /\ local = Lit.xmlns THEN Str(XMLNS_NS)
    ELSE IF prefix = Str(Lit.xmlns) THEN Str(XMLNS_NS)
    ELSE resolveNS(stack, prefix, TRUE)

\* the namespace of a raw attribute, resolved against the pushed scope
attrNamespace(stack, prefix, local) ==
    IF prefix = Null /\ local = Lit.xmlns THEN Str(XMLNS_NS)
    ELSE IF prefix = Str(Lit.xmlns) THEN Str(XMLNS_NS)
    ELSE IF prefix # Null THEN resolveNS(stack, prefix, FALSE)
    ELSE Null

\* the Attribute of a raw attribute
resolveAttr(stack, raw) ==
    [js |-> "object",
     name |-> Str(raw.local),
     prefix |-> raw.prefix,
     namespace |-> attrNamespace(stack, raw.prefix, raw.local),
     value |-> Str(raw.value)]

\* the end of a start tag, the cursor after its attributes: whether the tag
\* is (treated as) self-closing and the cursor after it
tagEnd(s, p) ==
    IF StartsWith(s, Lit.selfClose, p) THEN [selfClosing |-> TRUE, pos |-> p + 2]
    ELSE IF current(s, p) = 62 THEN [selfClosing |-> FALSE, pos |-> p + 1]
    ELSE [selfClosing |-> TRUE, pos |-> p]

\* A variant of resolvedTag that resolves the names of the tag before the
\* scope of the tag is pushed, so against the scopes of its ancestors alone.
\* DeclarationsApplyToWholeTag must fail with it in place of resolvedTag.
resolvedTagBeforePush(s, q, l, pushed) ==
    Let(tagEnd(s, l.pos), LAMBDA e :
        [ok |-> q.ok,
         qname |-> q.qname,
         nsDecls |-> l.nsDecls,
         namespace |-> resolveNS(SubSeq(pushed, 1, Len(pushed) - 1), q.qname.prefix, TRUE),
         attributes |-> [i \in 1..Len(l.rawAttrs) |->
                            resolveAttr(SubSeq(pushed, 1, Len(pushed) - 1), l.rawAttrs[i])],
         selfClosing |-> e.selfClosing,
         pos |-> e.pos])

\* the start tag with its QName q and its attribute list l, against the scope
\* stack with the tag's own declarations pushed
resolvedTag(s, q, l, pushed) ==
    Let(tagEnd(s, l.pos), LAMBDA e :
        [ok |-> q.ok,
         qname |-> q.qname,
         nsDecls |-> l.nsDecls,
         namespace |-> resolveNS(pushed, q.qname.prefix, TRUE),
         attributes |-> [i \in 1..Len(l.rawAttrs) |-> resolveAttr(pushed, l.rawAttrs[i])],
         selfClosing |-> e.selfClosing,
         pos |-> e.pos])

\* parseElement from '<' to the end of the start tag.  ok = FALSE is the
\* ParseError of parseName, thrown with the cursor after '<'.  Otherwise: the
\* QName, the scope to push, the resolved namespace and attributes, whether
\* the tag is (treated as) self-closing, and the cursor after the tag.
startTag(s, p, stack) ==
    Let(parseQName(s, p + 1), LAMBDA q :
    Let(attrLoop(s, skipWhitespace(s, q.pos), <<>>, <<>>), LAMBDA l :
        resolvedTag(s, q, l, Append(stack, l.nsDecls))))

\* the Element node returned by parseElement
Element(qn, namespace, attributes, kids) ==
    [js |-> "object", type |-> Str("element"),
     name |-> Str(qn.local), prefix |-> qn.prefix, namespace |-> namespace,
     attributes |-> Arr(attributes), children |-> Arr(kids)]

\* ------------------------------------------------------------------------
\* serialize.ts
\* ------------------------------------------------------------------------

\* The string literals the serializer emits.
Out ==
    [ amp        |-> <<38, 97, 109, 112, 59>>,                       \* '&amp;'
      lt         |-> <<38, 108, 116, 59>>,                           \* '&lt;'
      gt         |-> <<38, 103, 116, 59>>,                           \* '&gt;'
      quot       |-> <<38, 113, 117, 111, 116, 59>>,                 \* '&quot;'
      cdataSplit |-> <<93, 93, 93, 62, 60, 33, 91, 67, 68, 65, 84, 65, 91, 93, 62>>, \* ']]]><![CDATA[]>'
      xmlDecl    |-> <<60, 63, 120, 109, 108, 32, 118, 101, 114, 115, 105, 111, 110, 61, 34>>, \* '<?xml version="'
      encoding   |-> <<32, 101, 110, 99, 111, 100, 105, 110, 103, 61, 34>>, \* ' encoding="'
      standalone |-> <<32, 115, 116, 97, 110, 100, 97, 108, 111, 110, 101, 61, 34>>, \* ' standalone="'
      doctype    |-> <<60, 33, 68, 79, 67, 84, 89, 80, 69, 32>>,     \* '<!DOCTYPE '
      public     |-> <<32, 80, 85, 66, 76, 73, 67, 32, 34>>,         \* ' PUBLIC "'
      between    |-> <<34, 32, 34>>,                                 \* '" "'
      system     |-> <<32, 83, 89, 83, 84, 69, 77, 32, 34>>,         \* ' SYSTEM "'
      subset     |-> <<32, 91>> ]                                    \* ' ['

escapeText(str) ==
    ReplaceAll(ReplaceAll(ReplaceAll(str, <<38>>, Out.amp), <<60>>, Out.lt), <<62>>, Out.gt)

\* A variant of escapeAttr that escapes what escapeText escapes, so '>' and
\* not '"'.  EscapesRoundTrip must fail with it in place of escapeAttr.
escapeAttrAsText(str) ==
    ReplaceAll(ReplaceAll(ReplaceAll(str, <<38>>, Out.amp), <<60>>, Out.lt), <<62>>, Out.gt)

escapeAttr(str) ==
    ReplaceAll(ReplaceAll(ReplaceAll(str, <<38>>, Out.amp), <<60>>, Out.lt), <<34>>, Out.quot)

\* qname(prefix, name), prefix a string value or null
qname(prefix, name) ==
    IF prefix # Null /\ Len(prefix.v) > 0 THEN prefix.v \o <<58>> \o name ELSE name

\* A variant of escapeCData that leaves every ']]>' in the value.
\* SplitCDataRoundTrips must fail with it in place of escapeCData.
cdataUnsplit(value) == value

escapeCData(value) == ReplaceAll(value, Lit.cdataEnd, Out.cdataSplit)

\* bag(v): v itself when it is an object (an array is one), else null
bag(v) == IF v.js \in {"object", "array"} THEN v ELSE Null

\* b[key] of a bag; undefined is rendered as null, which no accessor tells apart
prop(b, key) == IF b.js = "object" /\ key \in DOMAIN b THEN b[key] ELSE Null

strOf(b, key) == IF prop(b, key).js = "string" THEN prop(b, key).v ELSE <<>>

\* strOf(b, 'type'): the discriminant, "" when absent or no string
typeOf(b) == IF prop(b, "type").js = "string" THEN prop(b, "type").v ELSE ""

nullStrOf(b, key) == IF prop(b, key).js = "string" THEN prop(b, key) ELSE Null

nullBoolOf(b, key) == IF prop(b, key).js = "boolean" THEN prop(b, key) ELSE Null

prefixOf(b) == IF prop(b, "prefix").js = "string" THEN prop(b, "prefix") ELSE Null

arrOf(b, key) == IF prop(b, key).js = "array" THEN prop(b, key).v ELSE <<>>

\* A variant of `||` that never takes the default.  SerializeDegrades must
\* fail with it in place of orElse.
orNothing(str, default) == str

\* `||`: str when it is not the empty string, else the default
orElse(str, default) == IF str = <<>> THEN default ELSE str

\* name="value" of an attribute bag with the name `name`
attrText(b, name) ==
    IF name = <<>> THEN <<>>
    ELSE qname(prefixOf(b), name) \o <<61, 34>> \o escapeAttr(strOf(b, "value")) \o <<34>>

serializeAttr(a) ==
    IF bag(a) = Null THEN <<>> ELSE attrText(a, strOf(a, "name"))

\* one attribute part with the ' ' that the join or the leading ' ' puts
\* before it; an empty part is filtered out
spaced(part) == IF part = <<>> THEN <<>> ELSE <<32>> \o part

\* arrOf(b, 'attributes').map(serializeAttr).filter(nonempty), joined
RECURSIVE attrStr(_)
attrStr(attrs) ==
    IF attrs = <<>> THEN <<>>
    ELSE spaced(serializeAttr(Head(attrs))) \o attrStr(Tail(attrs))

\* ' key="value"' when the property is not null
declPart(lead, value) == IF value # Null THEN lead \o value.v \o <<34>> ELSE <<>>

\* ' standalone="yes|no"' when the property is a boolean
standalonePart(value) ==
    IF value # Null
    THEN Out.standalone \o (IF value.v THEN Lit.yes ELSE Lit.no) \o <<34>>
    ELSE <<>>

serializeXmlDeclaration(b) ==
    Out.xmlDecl \o orElse(strOf(b, "version"), Lit.v10) \o <<34>>
    \o declPart(Out.encoding, nullStrOf(b, "encoding"))
    \o standalonePart(nullBoolOf(b, "standalone"))
    \o Lit.piEnd

\* the external identifier of a serialized DOCTYPE
externalIdPart(publicId, systemId) ==
    IF publicId # Null
    THEN Out.public \o publicId.v \o Out.between
         \o (IF systemId # Null THEN systemId.v ELSE <<>>) \o <<34>>
    ELSE IF systemId # Null THEN Out.system \o systemId.v \o <<34>>
    ELSE <<>>

\* ' [subset]' when the property is not null
subsetPart(internalSubset) ==
    IF internalSubset # Null THEN Out.subset \o internalSubset.v \o <<93>> ELSE <<>>

serializeDoctype(b) ==
    Out.doctype \o strOf(b, "name")
    \o externalIdPart(nullStrOf(b, "publicId"), nullStrOf(b, "systemId"))
    \o subsetPart(nullStrOf(b, "internalSubset"))
    \o <<62>>

\* the processing instruction with its target and data
piText(target, data) ==
    IF target = <<>> THEN <<>>
    ELSE IF Len(data) > 0 THEN Lit.pi \o target \o <<32>> \o data \o Lit.piEnd
    ELSE Lit.pi \o target \o Lit.piEnd

serializePI(b) == piText(strOf(b, "target"), strOf(b, "data"))

\* A variant of elementText that always writes the open and the close tag.
\* SelfClosingIffChildless must fail with it in place of elementText.
elementTextExplicit(name, tag, attrs, childless, inner) ==
    IF name = <<>> THEN inner
    ELSE <<60>> \o tag \o attrs \o <<62>> \o inner \o Lit.close \o tag \o <<62>>

\* the element with its name, tag, attribute string and serialized children;
\* childless is kids.length === 0
elementText(name, tag, attrs, childless, inner) ==
    IF name = <<>> THEN inner
    ELSE IF childless THEN <<60>> \o tag \o attrs \o Lit.selfClose
    ELSE <<60>> \o tag \o attrs \o <<62>> \o inner \o Lit.close \o tag \o <<62>>

RECURSIVE serializeNode(_)
RECURSIVE serializeAll(_)

\* nodes.map(serializeNode).join('')
serializeAll(nodes) ==
    IF nodes = <<>> THEN <<>>
    ELSE serializeNode(Head(nodes)) \o serializeAll(Tail(nodes))

serializeElement(b) ==
    elementText(strOf(b, "name"), qname(prefixOf(b), strOf(b, "name")),
                attrStr(arrOf(b, "attributes")), Len(arrOf(b, "children")) = 0,
                serializeAll(arrOf(b, "children")))

\* the switch of serializeNode on the discriminant
serializeBag(b, type) ==
    CASE type = "document" -> serializeAll(arrOf(b, "children"))
      [] type = "xml-declaration" -> serializeXmlDeclaration(b)
      [] type = "doctype" -> serializeDoctype(b)
      [] type = "processing-instruction" -> serializePI(b)
      [] type = "comment" -> Lit.comment \o strOf(b, "value") \o Lit.commentEnd
      [] type = "text" -> escapeText(strOf(b, "value"))
      [] type = "cdata" -> Lit.cdata \o escapeCData(strOf(b, "value")) \o Lit.cdataEnd
      [] type = "element" -> serializeElement(b)
      [] OTHER -> <<>>

serializeNode(node) ==
    IF bag(node) = Null THEN <<>> ELSE serializeBag(node, typeOf(node))

serialize(node) == serializeNode(node)

\* ------------------------------------------------------------------------
\* parser.ts: error helper
\* ------------------------------------------------------------------------

\* A variant of the count that goes on counting columns after a line feed.
\* ErrorCarriesPosition must fail with it in place of lineCol.
lineColNoReset(s, p, i, line, col) ==
    [line |-> 1 + Cardinality({ j \in 0..(p - 1) : CharCodeAt(s, j) = 10 }),
     column |-> 1 + p]

\* the line and column that error() counts over src[0 .. pos-1]
RECURSIVE lineCol(_, _, _, _, _)
lineCol(s, p, i, line, col) ==
    IF i < p /\ i < Len(s)
    THEN IF CharCodeAt(s, i) = 10
         THEN lineCol(s, p, i + 1, line + 1, 1)
         ELSE lineCol(s, p, i + 1, line, col + 1)
    ELSE [line |-> line, column |-> col]

\* the ParseError that error() builds at the cursor
ParseError(s, p) ==
    Let(lineCol(s, p, 0, 1, 1), LAMBDA at :
        [js |-> "ParseError", position |-> p, line |-> at.line, column |-> at.column])

\* ------------------------------------------------------------------------
\* The parser as a state machine: parse() and the recursion of parseElement
\* and parseChildren, with the open elements kept on an explicit stack.
\* ------------------------------------------------------------------------

VARIABLES
    input,      \* what the run was given: a string value, or a node object
    wrapped,    \* TRUE: src is "<wrap>" + serialize(input) + "</wrap>"
    round,      \* 1: the parse of the input; 2: the parse of serializer output;
                \* 3: the parse of the input without its BOM
    src,        \* XmlParser.src
    pos,        \* XmlParser.pos
    nsStack,    \* XmlParser.nsStack
    pc,         \* where parse() is
    children,   \* the `children` of parse()
    stack,      \* one frame per parseElement call that is in parseChildren
    doc,        \* the Document returned, Null before
    error,      \* the ParseError thrown, Null before
    first       \* round 2: the Document of round 1; round 3: its outcome
vars == <<input, wrapped, round, src, pos, nsStack, pc, children, stack, doc, error, first>>

\* the bound on the empty Text nodes that a parseChildren loop which no
\* longer advances is followed for
MaxSpin == 2

\* new XmlParser(text), before parse() runs
Fresh(text) ==
    /\ src = text
    /\ pos = 0
    /\ nsStack = <<seedScope>>
    /\ pc = "parse"
    /\ children = <<>>
    /\ stack = <<>>
    /\ doc = Null
    /\ error = Null

\* throw this.error(..) with the cursor at p
Throw(p) ==
    /\ pos' = p
    /\ pc' = "thrown"
    /\ error' = ParseError(src, p)
    /\ UNCHANGED <<input, wrapped, round, src, nsStack, children, stack, doc, first>>

\* A variant of the first step of parse() that leaves the cursor on a BOM.
\* BomIsIgnored must fail with it in place of StripBOM.
KeepBOM ==
    /\ pc = "parse"
    /\ pc' = "xmldecl"
    /\ UNCHANGED <<input, wrapped, round, src, pos, nsStack, children, stack, doc, error, first>>

\* parse(), line 109: strip the BOM
StripBOM ==
    /\ pc = "parse"
    /\ pos' = IF CharCodeAt(src, 0) = 65279 THEN 1 ELSE pos
    /\ pc' = "xmldecl"
    /\ UNCHANGED <<input, wrapped, round, src, nsStack, children, stack, doc, error, first>>

\* children.push(r.node) in parse() or parseMisc, the cursor after the node
PushChild(r, at) ==
    /\ children' = Append(children, r.node)
    /\ pos' = r.pos
    /\ pc' = at
    /\ UNCHANGED <<input, wrapped, round, src, nsStack, stack, doc, error, first>>

\* nothing is parsed and parse() goes on at `at`, the cursor at p
Skip(p, at) ==
    /\ pos' = p
    /\ pc' = at
    /\ UNCHANGED <<input, wrapped, round, src, nsStack, children, stack, doc, error, first>>

\* parse(), lines 114-116: the optional XML declaration
XmlDeclaration ==
    /\ pc = "xmldecl"
    /\ IF StartsWith(src, Lit.xmlDecl, pos) /\ isXmlDeclStart(src, pos)
       THEN PushChild(parseXmlDeclaration(src, pos), "misc1")
       ELSE Skip(pos, "misc1")

\* where parse() continues after each of its three parseMisc calls
afterMisc(at) ==
    CASE at = "misc1" -> "doctype"
      [] at = "misc2" -> "root"
      [] at = "misc3" -> "return"

\* one iteration of the loop of parseMisc, p the cursor after skipWhitespace
MiscAt(p) ==
    IF StartsWith(src, Lit.comment, p) THEN PushChild(parseComment(src, p), pc)
    ELSE IF StartsWith(src, Lit.pi, p) THEN PushChild(parseProcessingInstruction(src, p), pc)
    ELSE Skip(p, afterMisc(pc))

\* parseMisc: one iteration of its loop, or its exit at the end of input
Misc ==
    /\ pc \in {"misc1", "misc2", "misc3"}
    /\ \/ /\ pos < Len(src)
          /\ MiscAt(skipWhitespace(src, pos))
       \/ /\ pos >= Len(src)
          /\ Skip(pos, afterMisc(pc))

\* parse(), lines 121-129: the optional DOCTYPE.  parseDoctype makes no call
\* that throws, so the catch clause is never entered.
Doctype ==
    /\ pc = "doctype"
    /\ IF StartsWith(src, Lit.DOCTYPE, pos) \/ StartsWith(src, Lit.doctype, pos)
       THEN PushChild(parseDoctype(src, pos), "misc2")
       ELSE Skip(pos, "root")

\* A variant of the pop that leaves the scope of the element on the stack.
\* ScopesArePopped must fail with it in place of popScope.
keepScope(scopes) == scopes

\* this.nsStack.pop() at the end of parseElement
popScope(scopes) == SubSeq(scopes, 1, Len(scopes) - 1)

\* the end of a parseElement call: the Element goes to the `into` of its
\* caller, parseChildren of the enclosing element or parse() itself
Deliver(node, p, frames) ==
    /\ pos' = p
    /\ IF frames = <<>>
       THEN /\ children' = Append(children, node)
            /\ stack' = <<>>
            /\ pc' = "misc3"
       ELSE /\ children' = children
            /\ stack' = [frames EXCEPT ![Len(frames)].children = Append(@, node)]
            /\ pc' = "children"

\* parseElement after its start tag t, which began at p: the ParseError of
\* parseName, the return of a self-closing element, or the entry into
\* parseChildren
Opened(t, p) ==
    IF ~t.ok THEN Throw(p + 1)
    ELSE IF t.selfClosing
    THEN /\ Deliver(Element(t.qname, t.namespace, t.attributes, <<>>), t.pos, stack)
         /\ nsStack' = popScope(Append(nsStack, t.nsDecls))
         /\ UNCHANGED <<input, wrapped, round, src, doc, error, first>>
    ELSE /\ pos' = t.pos
         /\ nsStack' = Append(nsStack, t.nsDecls)
         /\ stack' = Append(stack, [qname |-> t.qname, namespace |-> t.namespace,
                                    attributes |-> t.attributes, children |-> <<>>])
         /\ pc' = "children"
         /\ UNCHANGED <<input, wrapped, round, src, children, doc, error, first>>

\* parseElement with the cursor on '<' at p
OpenElement(p) == Opened(startTag(src, p, nsStack), p)

\* parse(), lines 132-136: the root element
Root ==
    /\ pc = "root"
    /\ \/ /\ pos < Len(src) /\ current(src, pos) = 60
          /\ OpenElement(pos)
       \/ /\ pos < Len(src) /\ current(src, pos) # 60
          /\ Throw(pos)
       \/ /\ pos >= Len(src)
          /\ Skip(pos, "misc3")

\* the element whose parseChildren is running
top == stack[Len(stack)]

\* parseChildren returns: parseElement pops its scope and returns the Element
Closed(frame, p) ==
    /\ Deliver(Element(frame.qname, frame.namespace, frame.attributes, frame.children),
               p, SubSeq(stack, 1, Len(stack) - 1))
    /\ nsStack' = popScope(nsStack)
    /\ UNCHANGED <<input, wrapped, round, src, doc, error, first>>

CloseElement(p) == Closed(top, p)

\* into.push(r.node) in parseChildren, the cursor after the node
Push(r) ==
    /\ stack' = [stack EXCEPT ![Len(stack)].children = Append(@, r.node)]
    /\ pos' = r.pos
    /\ pc' = "children"
    /\ UNCHANGED <<input, wrapped, round, src, nsStack, children, doc, error, first>>

\* `const text = parseText(); if (text.value.length > 0) into.push(text)`
PushText(r) ==
    IF Len(r.node.value.v) > 0 THEN Push(r) ELSE Skip(r.pos, "children")

\* A variant of closeTagEnd that leaves the cursor on the closing tag.
\* ClosingTagEndsInnermost must fail with it in place of closeTagEnd.
closeTagLeft(s, p) == p

\* the cursor after a closing tag that starts at p
closeTagEnd(s, p) ==
    Let(skipWhitespace(s, tryParseQName(s, p + 2).pos), LAMBDA q :
        IF current(s, q) = 62 THEN q + 1 ELSE q)

\* the number of empty Text nodes at the end of a child sequence
RECURSIVE spin(_)
spin(kids) ==
    IF kids # <<>> /\ kids[Len(kids)] = Leaf("text", <<>>)
    THEN 1 + spin(SubSeq(kids, 1, Len(kids) - 1))
    ELSE 0

\* the peek of parseChildren behind a '<': TRUE when an element is parsed
startsElement(nextCode) == isNameStartChar(nextCode) \/ nextCode = 58 \/ nextCode = 95

\* parseChildren: one iteration of its loop, or its exit at the end of input
Children ==
    /\ pc = "children"
    /\ \/ /\ pos >= Len(src)
          /\ CloseElement(pos)
       \/ /\ pos < Len(src)
          /\ StartsWith(src, Lit.close, pos)
          /\ CloseElement(closeTagEnd(src, pos))
       \/ /\ pos < Len(src)
          /\ ~StartsWith(src, Lit.close, pos)
          /\ StartsWith(src, Lit.cdata, pos)
          /\ Push(parseCData(src, pos))
       \/ /\ pos < Len(src)
          /\ ~StartsWith(src, Lit.close, pos)
          /\ ~StartsWith(src, Lit.cdata, pos)
          /\ StartsWith(src, Lit.comment, pos)
          /\ Push(parseComment(src, pos))
       \/ /\ pos < Len(src)
          /\ ~StartsWith(src, Lit.close, pos)
          /\ ~StartsWith(src, Lit.cdata, pos)
          /\ ~StartsWith(src, Lit.comment, pos)
          /\ StartsWith(src, Lit.pi, pos)
          /\ Push(parseProcessingInstruction(src, pos))
       \/ /\ pos < Len(src)
          /\ ~StartsWith(src, Lit.close, pos)
          /\ ~StartsWith(src, Lit.cdata, pos)
          /\ ~StartsWith(src, Lit.comment, pos)
          /\ ~StartsWith(src, Lit.pi, pos)
          /\ current(src, pos) = 60
          /\ startsElement(CharCodeAt(src, pos + 1))
          /\ OpenElement(pos)
       \/ /\ pos < Len(src)
          /\ ~StartsWith(src, Lit.close, pos)
          /\ ~StartsWith(src, Lit.cdata, pos)
          /\ ~StartsWith(src, Lit.comment, pos)
          /\ ~StartsWith(src, Lit.pi, pos)
          /\ current(src, pos) = 60
          /\ ~startsElement(CharCodeAt(src, pos + 1))
          /\ spin(top.children) < MaxSpin
          /\ Push(parseText(src, pos))
       \/ /\ pos < Len(src)
          /\ current(src, pos) # 60
          /\ PushText(parseText(src, pos))

\* The loop of parseChildren has pushed MaxSpin empty Text nodes without
\* moving the cursor: every further iteration does the same, and the call
\* never returns.
Diverge ==
    /\ pc = "children"
    /\ spin(top.children) >= MaxSpin
    /\ pc' = "diverged"
    /\ UNCHANGED <<input, wrapped, round, src, pos, nsStack, children, stack, doc, error, first>>

\* parse(), line 141
Return ==
    /\ pc = "return"
    /\ doc' = [js |-> "object", type |-> Str("document"), children |-> Arr(children)]
    /\ pc' = "returned"
    /\ UNCHANGED <<input, wrapped, round, src, pos, nsStack, children, stack, error, first>>

\* assertRoundTrip: the Document of round 1 is serialized and parsed again
Reparse ==
    /\ pc = "returned"
    /\ round = 1
    /\ round' = 2
    /\ first' = doc
    /\ src' = serialize(doc)
    /\ pos' = 0
    /\ nsStack' = <<seedScope>>
    /\ pc' = "parse"
    /\ children' = <<>>
    /\ stack' = <<>>
    /\ doc' = Null
    /\ error' = Null
    /\ UNCHANGED <<input, wrapped>>

\* the outcome of a parse that has ended: the Document returned, the
\* ParseError thrown, or the loop it never leaves
outcome ==
    CASE pc = "returned" -> doc
      [] pc = "thrown" -> error
      [] pc = "diverged" -> [js |-> "diverged"]

\* The test of the BOM: the input begins with U+FEFF and its parse has ended;
\* the same input without that first character is parsed, for its outcome to
\* be compared with the first one.
ParseWithoutBOM ==
    /\ pc \in {"returned", "thrown", "diverged"}
    /\ round = 1
    /\ ~wrapped
    /\ CharCodeAt(input.v, 0) = 65279
    /\ round' = 3
    /\ first' = outcome
    /\ src' = SliceFrom(input.v, 1)
    /\ pos' = 0
    /\ nsStack' = <<seedScope>>
    /\ pc' = "parse"
    /\ children' = <<>>
    /\ stack' = <<>>
    /\ doc' = Null
    /\ error' = Null
    /\ UNCHANGED <<input, wrapped>>

\* ------------------------------------------------------------------------
\* Inputs
\* ------------------------------------------------------------------------

\* the bound on the number of content pieces in a generated element
MaxContent == 3

\* XML declarations that XML 1.0 accepts (none is one)
WellFormedXmlDecls ==
    { <<>>,   \* ''
      <<60, 63, 120, 109, 108, 32, 118, 101, 114, 115, 105, 111, 110, 61, 34, 49, 46, 48, 34, 63, 62>>,   \* '<?xml version="1.0"?>'
      <<60, 63, 120, 109, 108, 32, 118, 101, 114, 115, 105, 111, 110, 61, 39, 49, 46, 49, 39, 32, 115, 116, 97, 110, 100, 97, 108, 111, 110, 101, 61, 39, 110, 111, 39, 63, 62>> }   \* '<?xml version='1.1' standalone='no'?>'

\* a malformed XML declaration: a stray token before '?>'
BrokenXmlDecls ==
    { <<60, 63, 120, 109, 108, 32, 118, 101, 114, 115, 105, 111, 110, 61, 34, 49, 46, 48, 34, 32, 120, 63, 62>> }   \* '<?xml version="1.0" x?>'

\* Misc*: white space, a comment, a processing instruction
WellFormedMisc ==
    { <<>>,   \* ''
      <<10>>,   \* '\n'
      <<60, 33, 45, 45, 99, 45, 45, 62>>,   \* '<!--c-->'
      <<60, 63, 112, 32, 100, 63, 62>> }   \* '<?p d?>'

\* document type declarations that XML 1.0 accepts (none is one)
WellFormedDoctypes ==
    { <<>>,   \* ''
      <<60, 33, 68, 79, 67, 84, 89, 80, 69, 32, 114, 62>>,   \* '<!DOCTYPE r>'
      <<60, 33, 68, 79, 67, 84, 89, 80, 69, 32, 114, 32, 83, 89, 83, 84, 69, 77, 32, 39, 97, 34, 98, 39, 62>>,   \* '<!DOCTYPE r SYSTEM 'a"b'>'
      <<60, 33, 68, 79, 67, 84, 89, 80, 69, 32, 114, 32, 80, 85, 66, 76, 73, 67, 32, 34, 112, 34, 32, 34, 115, 34, 62>> }   \* '<!DOCTYPE r PUBLIC "p" "s">'

\* malformed document type declarations: an unexpected token after the
\* name, and the keyword in lower case
BrokenDoctypes ==
    { <<60, 33, 68, 79, 67, 84, 89, 80, 69, 32, 114, 32, 120, 62>>,   \* '<!DOCTYPE r x>'
      <<60, 33, 100, 111, 99, 116, 121, 112, 101, 32, 114, 62>> }   \* '<!doctype r>'

\* root elements that XML 1.0 accepts
WellFormedRoots ==
    { <<60, 114, 47, 62>>,   \* '<r/>'
      <<60, 114, 62, 60, 47, 114, 62>>,   \* '<r></r>'
      <<60, 114, 62, 97, 60, 47, 114, 62>>,   \* '<r>a</r>'
      <<60, 114, 32, 107, 61, 34, 118, 34, 62, 97, 38, 97, 109, 112, 59, 98, 60, 98, 47, 62, 60, 47, 114, 62>> }   \* '<r k="v">a&amp;b<b/></r>'

\* a root element that is never closed, and a '<' that starts no name
BrokenRoots ==
    { <<60, 114, 62>>,   \* '<r>'
      <<60, 49, 47, 62>> }   \* '<1/>'

\* no root element: nothing, and plain text
NoRoots ==
    { <<>>,   \* ''
      <<120>> }   \* 'x'

\* pieces of element content, well-formed or not
ContentTokens ==
    { <<60>>,   \* '<'
      <<97>>,   \* 'a'
      <<32>>,   \* ' '
      <<60, 47, 114, 62>>,   \* '</r>'
      <<60, 98, 62>>,   \* '<b>'
      <<60, 47, 98, 62>>,   \* '</b>'
      <<60, 33, 45, 45, 99, 45, 45, 62>>,   \* '<!--c-->'
      <<60, 33, 91, 67, 68, 65, 84, 65, 91>>,   \* '<![CDATA['
      <<93, 93, 62>>,   \* ']]>'
      <<38, 97, 109, 112, 59>>,   \* '&amp;'
      <<60, 63, 112, 63, 62>> }   \* '<?p?>'

\* namespace declarations on the outer element, the last two trying to
\* rebind the reserved prefixes
OuterDecls ==
    { <<>>,   \* ''
      <<32, 120, 109, 108, 110, 115, 61, 34, 117, 34>>,   \* ' xmlns="u"'
      <<32, 120, 109, 108, 110, 115, 58, 112, 61, 34, 117, 34>>,   \* ' xmlns:p="u"'
      <<32, 120, 109, 108, 110, 115, 61, 34, 117, 34, 32, 120, 109, 108, 110, 115, 58, 112, 61, 34, 118, 34>>,   \* ' xmlns="u" xmlns:p="v"'
      <<32, 120, 109, 108, 110, 115, 58, 120, 109, 108, 61, 34, 111, 34>>,   \* ' xmlns:xml="o"'
      <<32, 120, 109, 108, 110, 115, 58, 120, 109, 108, 110, 115, 61, 34, 111, 34>> }   \* ' xmlns:xmlns="o"'

\* namespace declarations on the inner element: none, the default namespace
\* undeclared or rebound, the prefix rebound or undeclared
InnerDecls ==
    { <<>>,   \* ''
      <<32, 120, 109, 108, 110, 115, 61, 34, 34>>,   \* ' xmlns=""'
      <<32, 120, 109, 108, 110, 115, 61, 34, 119, 34>>,   \* ' xmlns="w"'
      <<32, 120, 109, 108, 110, 115, 58, 112, 61, 34, 119, 34>>,   \* ' xmlns:p="w"'
      <<32, 120, 109, 108, 110, 115, 58, 112, 61, 34, 34>> }   \* ' xmlns:p=""'

\* the prefix of the inner element, with its ':'
Prefixes ==
    { <<>>,   \* ''
      <<112, 58>>,   \* 'p:'
      <<120, 109, 108, 58>>,   \* 'xml:'
      <<120, 109, 108, 110, 115, 58>>,   \* 'xmlns:'
      <<85, 78, 68, 69, 67, 76, 65, 82, 69, 68, 58>> }   \* 'UNDECLARED:'

\* an attribute of the inner element
PrefixedAttrs ==
    { <<>>,   \* ''
      <<32, 107, 61, 34, 49, 34>>,   \* ' k="1"'
      <<32, 112, 58, 107, 61, 34, 49, 34>>,   \* ' p:k="1"'
      <<32, 120, 109, 108, 58, 108, 97, 110, 103, 61, 34, 101, 34>> }   \* ' xml:lang="e"'

\* the content of the inner element
InnerContent ==
    { <<>>,   \* ''
      <<60, 99, 47, 62>>,   \* '<c/>'
      <<60, 112, 58, 99, 47, 62>> }   \* '<p:c/>'

\* single elements: an undeclared prefix, a prefix the element declares
\* itself, a declaration made twice, a reserved prefix undeclared
NamespaceExamples ==
    { <<60, 85, 78, 68, 69, 67, 76, 65, 82, 69, 68, 58, 102, 111, 111, 47, 62>>,   \* '<UNDECLARED:foo/>'
      <<60, 112, 58, 114, 32, 120, 109, 108, 110, 115, 58, 112, 61, 34, 117, 34, 47, 62>>,   \* '<p:r xmlns:p="u"/>'
      <<60, 114, 32, 120, 109, 108, 110, 115, 61, 34, 97, 34, 32, 120, 109, 108, 110, 115, 61, 34, 98, 34, 47, 62>>,   \* '<r xmlns="a" xmlns="b"/>'
      <<60, 120, 109, 108, 58, 114, 32, 120, 109, 108, 110, 115, 58, 120, 109, 108, 61, 34, 34, 47, 62>> }   \* '<xml:r xmlns:xml=""/>'

\* element content with a '<' that opens no markup
StrayLtDocs ==
    { <<60, 114, 62, 97, 32, 60, 32, 98, 60, 47, 114, 62>>,   \* '<r>a < b</r>'
      <<60, 114, 62, 60, 60, 47, 114, 62>>,   \* '<r><</r>'
      <<60, 114, 62, 49, 60, 50, 60, 47, 114, 62>> }   \* '<r>1<2</r>'

\* inputs that begin with a byte order mark
BomDocs ==
    { <<65279>>,   \* '\uFEFF'
      <<65279, 60, 114, 47, 62>>,   \* '\uFEFF<r/>'
      <<65279, 60, 63, 120, 109, 108, 32, 118, 101, 114, 115, 105, 111, 110, 61, 34, 49, 46, 48, 34, 63, 62, 60, 114, 47, 62>>,   \* '\uFEFF<?xml version="1.0"?><r/>'
      <<65279, 120>> }   \* '\uFEFFx'

\* string values of node properties
StringValues ==
    { <<>>,   \* ''
      <<97>>,   \* 'a'
      <<60>>,   \* '<'
      <<45, 45, 62, 60>>,   \* '--><'
      <<93, 93, 62>>,   \* ']]>'
      <<63, 62, 60>> }   \* '?><'

\* [XmlDeclaration] Misc [DocumentType] [root] Misc, each part from a set
Docs(X, M1, D, R, M3) ==
    { x \o m1 \o d \o r \o m3 : x \in X, m1 \in M1, d \in D, r \in R, m3 \in M3 }

\* documents that are well-formed XML 1.0
WellFormedDocs ==
    Docs(WellFormedXmlDecls, WellFormedMisc, WellFormedDoctypes, WellFormedRoots, WellFormedMisc)

\* documents with any mix of well-formed, malformed and missing parts
TolerantDocs ==
    Docs(WellFormedXmlDecls \cup BrokenXmlDecls, {<<>>, <<10>>},
         WellFormedDoctypes \cup BrokenDoctypes,
         WellFormedRoots \cup BrokenRoots \cup NoRoots,
         {<<>>, <<120>>, <<60, 33, 45, 45, 99, 45, 45, 62>>})

\* the concatenations of exactly n content pieces
RECURSIVE Pieces(_)
Pieces(n) ==
    IF n = 0 THEN {<<>>} ELSE { w \o piece : w \in Pieces(n - 1), piece \in ContentTokens }

\* '<r>' followed by up to MaxContent content pieces
ContentDocs == { <<60, 114, 62>> \o w : w \in UNION { Pieces(n) : n \in 0..MaxContent } }

\* '<r' d1 '><' n 'b' d2 a '>' content '</' n 'b></r>': an outer and an inner
\* element, each with its namespace declarations
NamespaceDocs ==
    { <<60, 114>> \o d1 \o <<62, 60>> \o n \o <<98>> \o d2 \o a \o <<62>> \o content
      \o <<60, 47>> \o n \o <<98, 62, 60, 47, 114, 62>> :
      d1 \in OuterDecls, n \in Prefixes, d2 \in InnerDecls, a \in PrefixedAttrs,
      content \in InnerContent }

\* an element b with declarations of its own, ended by '/>', by its closing
\* tag, or by a closing tag that does not match
ScopedElements ==
    { <<60, 98, 32, 120, 109, 108, 110, 115, 61, 34, 119, 34, 47, 62>>,   \* '<b xmlns="w"/>'
      <<60, 98, 32, 120, 109, 108, 110, 115, 61, 34, 119, 34, 62, 60, 47, 98, 62>>,   \* '<b xmlns="w"></b>'
      <<60, 98, 32, 120, 109, 108, 110, 115, 61, 34, 119, 34, 62, 60, 47, 120, 62>>,   \* '<b xmlns="w"></x>'
      <<60, 112, 58, 98, 32, 120, 109, 108, 110, 115, 58, 112, 61, 34, 119, 34, 47, 62>>,   \* '<p:b xmlns:p="w"/>'
      <<60, 98, 32, 120, 109, 108, 110, 115, 58, 112, 61, 34, 119, 34, 62, 97, 60, 47, 98, 62>> }   \* '<b xmlns:p="w">a</b>'
\* '<r' d '>' b c ['</r>']: the element c follows b, which has declarations
ScopedSiblings ==
    { <<60, 114>> \o d \o <<62>> \o b \o c \o end :
      d \in {<<>>, <<32, 120, 109, 108, 110, 115, 61, 34, 117, 34>>,
             <<32, 120, 109, 108, 110, 115, 58, 112, 61, 34, 117, 34>>},
      b \in ScopedElements,
      c \in {<<60, 99, 47, 62>>, <<60, 112, 58, 99, 47, 62>>},
      end \in {<<>>, <<60, 47, 114, 62>>} }

\* elements with declarations that the end of the input ends: in the start
\* tag, and in the content
UnclosedScopes ==
    { <<60, 114, 62, 60, 98, 32, 120, 109, 108, 110, 115, 61, 34, 119, 34>>,   \* '<r><b xmlns="w"'
      <<60, 114, 32, 120, 109, 108, 110, 115, 61, 34, 117, 34, 62, 60, 98, 32, 120, 109, 108, 110, 115, 61, 34, 119, 34, 62>>,   \* '<r xmlns="u"><b xmlns="w">'
      <<60, 114, 32, 120, 109, 108, 110, 115, 61, 34, 117, 34, 62, 60, 98, 32, 120, 109, 108, 110, 115, 61, 34, 119, 34, 62, 60, 99, 32, 120, 109, 108, 110, 115, 61, 34, 118, 34, 47, 62>> }   \* '<r xmlns="u"><b xmlns="w"><c xmlns="v"/>'

\* the bound on the zeros put in front of the digits of a character reference
MaxZeros == 1

\* '<r k="' e after '">' e after '</r>': the reference e, followed by the
\* text `after`, as an attribute value and as text content
refDoc(e, after) ==
    <<60, 114, 32, 107, 61, 34>> \o e \o after \o <<34, 62>> \o e \o after \o <<60, 47, 114, 62>>

\* what may follow a reference: nothing, or a character that ends a name
Afters == { <<>>, <<32>> }

\* the five predefined entities: the name and the character it stands for
PredefinedRefs ==
    { [name |-> <<97, 109, 112>>, char |-> 38],
      [name |-> <<108, 116>>, char |-> 60],
      [name |-> <<103, 116>>, char |-> 62],
      [name |-> <<97, 112, 111, 115>>, char |-> 39],
      [name |-> <<113, 117, 111, 116>>, char |-> 34] }

\* names of entities that are not predefined
UnknownNames ==
    { <<110, 98, 115, 112>>,   \* 'nbsp'
      <<102, 111, 111>>,   \* 'foo'
      <<65, 77, 80>>,   \* 'AMP'
      <<99, 111, 110, 115, 116, 114, 117, 99, 116, 111, 114>>,   \* 'constructor'
      <<116, 111, 83, 116, 114, 105, 110, 103>>,   \* 'toString'
      <<95, 95, 112, 114, 111, 116, 111, 95, 95>> }   \* '__proto__'

\* '&' name ';' and '&' name, for the predefined and the other names
EntityDocs ==
    { refDoc(<<38>> \o name \o semi, after) :
      name \in { ref.name : ref \in PredefinedRefs } \cup UnknownNames,
      semi \in {<<59>>, <<>>}, after \in Afters }

\* code points around every limit that parseCharRef tests
CodePoints ==
    { 0, 9, 34, 38, 60, 65, 169, 55295, 55296, 57343, 57344, 65533, 65535, 65536,
      128512, 1114111, 1114112 }

\* the decimal digits of n
RECURSIVE decimal(_)
decimal(n) == IF n < 10 THEN <<48 + n>> ELSE Append(decimal(n \div 10), 48 + (n % 10))

\* the hexadecimal digits of n, the letters from the code of 'a' or 'A'
RECURSIVE hexadecimal(_, _)
hexadecimal(n, letterA) ==
    IF n < 16 THEN <<IF n < 10 THEN 48 + n ELSE letterA + n - 10>>
    ELSE Append(hexadecimal(n \div 16, letterA),
                IF n % 16 < 10 THEN 48 + (n % 16) ELSE letterA + (n % 16) - 10)

\* k times '0'
zeros(k) == [i \in 1..k |-> 48]

\* the character references of the code point n: '&#' digits ';' and
\* '&#x' digits ';', with up to MaxZeros leading zeros
charRefs(n) ==
    { <<38, 35>> \o zeros(k) \o decimal(n) \o <<59>> : k \in 0..MaxZeros }
    \cup { <<38, 35, 120>> \o zeros(k) \o hexadecimal(n, letterA) \o <<59>> :
           k \in 0..MaxZeros, letterA \in {65, 97} }

\* character references without digits
NoDigitRefs ==
    { <<38, 35, 59>>,   \* '&#;'
      <<38, 35, 120, 59>> }   \* '&#x;'

\* character references with more digits than any code point has, among them
\* 2^32 + 65 and 2^64 + 65
HugeRefs ==
    { <<38, 35, 52, 50, 57, 52, 57, 54, 55, 51, 54, 49, 59>>,   \* '&#4294967361;'
      <<38, 35, 120, 49, 48, 48, 48, 48, 48, 48, 52, 49, 59>>,   \* '&#x100000041;'
      <<38, 35, 49, 56, 52, 52, 54, 55, 52, 52, 48, 55, 51, 55, 48, 57, 53, 53, 49, 54, 56, 49, 59>>,   \* '&#18446744073709551681;'
      <<38, 35, 120, 49, 48, 48, 48, 48, 48, 48, 48, 48, 48, 48, 48, 48, 48, 48, 52, 49, 59>>,   \* '&#x10000000000000041;'
      <<38, 35, 57, 57, 57, 57, 57, 57, 57, 57, 57, 57, 57, 57, 57, 57, 57, 57, 57, 57, 57, 57, 57, 57, 57, 59>> }   \* '&#99999999999999999999999;'

CharRefDocs ==
    { refDoc(e, <<>>) : e \in UNION { charRefs(n) : n \in CodePoints } \cup NoDigitRefs \cup HugeRefs }

\* documents to be parsed with and without a byte order mark in front
BomBodies ==
    Docs(WellFormedXmlDecls \cup BrokenXmlDecls, {<<>>, <<10>>},
         {<<>>, <<60, 33, 68, 79, 67, 84, 89, 80, 69, 32, 114, 62>>,
          <<60, 33, 68, 79, 67, 84, 89, 80, 69, 32, 114, 32, 120, 62>>},
         WellFormedRoots \cup BrokenRoots \cup NoRoots, {<<>>})
    \cup StrayLtDocs

\* each of them after a byte order mark, and one after two
BomPrefixed ==
    { <<65279>> \o x : x \in BomBodies } \cup { <<65279, 65279, 60, 114, 47, 62>> }

\* a root element without content, written in both ways, and one with white
\* space as its content
EmptyRootDocs ==
    { <<60, 114, 111, 111, 116, 47, 62>>,   \* '<root/>'
      <<60, 114, 111, 111, 116, 62, 60, 47, 114, 111, 111, 116, 62>>,   \* '<root></root>'
      <<60, 114, 111, 111, 116, 32, 97, 61, 34, 49, 34, 47, 62>>,   \* '<root a="1"/>'
      <<60, 114, 111, 111, 116, 32, 97, 61, 34, 49, 34, 62, 60, 47, 114, 111, 111, 116, 62>>,   \* '<root a="1"></root>'
      <<60, 114, 111, 111, 116, 62, 32, 60, 47, 114, 111, 111, 116, 62>> }   \* '<root> </root>'

\* inputs on which parse throws after one or several lines
ErrorDocs ==
    { <<10, 120>>,   \* '\nx'
      <<60, 33, 45, 45, 97, 10, 98, 45, 45, 62, 10, 10, 32, 32, 120>>,   \* '<!--a\nb-->\n\n  x'
      <<13, 10, 60, 49, 47, 62>>,   \* '\r\n<1/>'
      <<10, 10, 60, 33, 68, 79, 67, 84, 89, 80, 69, 32, 114, 10, 32, 120, 62, 10, 60, 114, 47, 62>>,   \* '\n\n<!DOCTYPE r\n x>\n<r/>'
      <<60, 63, 112, 32, 100, 63, 62, 10, 9, 60, 47, 114, 62>>,   \* '<?p d?>\n\t</r>'
      <<65279, 10, 10, 120>>,   \* '\ufeff\n\nx'
      <<32, 60, 10>>,   \* ' <\n'
      <<60, 33, 45, 45, 10, 45, 45, 62, 10, 60, 63, 112, 10, 63, 62, 10, 10, 10, 32, 32, 32, 60, 33, 114, 62>> }   \* '<!--\n-->\n<?p\n?>\n\n\n   <!r>'

\* closing tags that do not match the open element, that have white space
\* before '>', and that come after the root element has ended
MismatchedCloseDocs ==
    { <<60, 97, 62, 60, 98, 62, 120, 60, 47, 99, 62, 121, 60, 47, 97, 62>>,   \* '<a><b>x</c>y</a>'
      <<60, 97, 62, 60, 98, 62, 120, 60, 47, 97, 62, 121, 60, 47, 98, 62>>,   \* '<a><b>x</a>y</b>'
      <<60, 97, 62, 120, 60, 47, 98, 62, 121, 60, 47, 97, 62>>,   \* '<a>x</b>y</a>'
      <<60, 97, 62, 60, 98, 62, 60, 99, 62, 120, 60, 47, 99, 32, 62, 60, 47, 97, 62, 121, 60, 47, 98, 62, 60, 47, 97, 62>>,   \* '<a><b><c>x</c ></a>y</b></a>'
      <<60, 97, 62, 60, 98, 62, 120, 60, 47, 112, 58, 98, 62, 60, 99, 47, 62, 60, 47, 97, 62>>,   \* '<a><b>x</p:b><c/></a>'
      <<60, 97, 62, 60, 98, 62, 60, 47, 62, 121, 60, 47, 97, 62>> }   \* '<a><b></>y</a>'

\* DOCTYPE declarations with a token that no rule expects: after the name,
\* after the identifiers, after the internal subset
UnexpectedTokenDoctypes ==
    { <<60, 33, 68, 79, 67, 84, 89, 80, 69, 32, 114, 32, 120, 62>>,   \* '<!DOCTYPE r x>'
      <<60, 33, 68, 79, 67, 84, 89, 80, 69, 32, 114, 32, 80, 85, 66, 76, 73, 67, 32, 34, 112, 34, 32, 34, 115, 34, 32, 120, 62>>,   \* '<!DOCTYPE r PUBLIC "p" "s" x>'
      <<60, 33, 68, 79, 67, 84, 89, 80, 69, 32, 114, 32, 83, 89, 83, 84, 69, 77, 32, 34, 115, 34, 32, 91, 60, 33, 69, 76, 69, 77, 69, 78, 84, 32, 114, 32, 65, 78, 89, 62, 93, 32, 120, 62>>,   \* '<!DOCTYPE r SYSTEM "s" [<!ELEMENT r ANY>] x>'
      <<60, 33, 68, 79, 67, 84, 89, 80, 69, 32, 114, 32, 80, 85, 66, 76, 73, 67, 62>> }   \* '<!DOCTYPE r PUBLIC>'

\* each of them followed by a root element
BrokenDoctypeDocs ==
    { d \o m \o r : d \in UnexpectedTokenDoctypes, m \in {<<>>, <<10>>}, r \in WellFormedRoots }

\* the data of a processing instruction, without white space at its end
PIBodies ==
    { <<>>,   \* ''
      <<100>>,   \* 'd'
      <<97, 32, 32, 98>>,   \* 'a  b'
      <<97, 32, 63, 32, 62, 32, 98>>,   \* 'a ? > b'
      <<63>> }   \* '?'

\* '<r><?p' ws body trail end: a processing instruction with the target p,
\* white space, the data, white space, and '?>' or the end of the input
piDoc(ws, body, trail, end) ==
    <<60, 114, 62, 60, 63, 112>> \o ws \o body \o trail \o end

\* the white space after the target, and after the data
PILeads == { <<32>>, <<10, 9>> }
PITrails == { <<>>, <<32>>, <<32, 13, 10>> }

\* the end of the instruction: '?>', or nothing when the input ends
PIEnds == { <<63, 62>>, <<>> }

PIDocs ==
    { piDoc(ws, body, trail, end) :
      ws \in PILeads, body \in PIBodies, trail \in PITrails, end \in PIEnds }
    \cup { piDoc(<<>>, <<>>, <<>>, end) : end \in PIEnds }

\* comments and CDATA sections: with '--' and markup in the body, empty,
\* with a second terminator, and without any
SectionDocs ==
    { <<60, 114, 62, 60, 33, 45, 45, 32, 97, 32, 45, 45, 32, 98, 32, 45, 45, 62, 60, 47, 114, 62>>,   \* '<r><!-- a -- b --></r>'
      <<60, 114, 62, 60, 33, 45, 45, 120>>,   \* '<r><!--x'
      <<60, 114, 62, 60, 33, 45, 45, 45, 45, 62>>,   \* '<r><!---->'
      <<60, 114, 62, 60, 33, 45, 45, 45, 62>>,   \* '<r><!--->'
      <<60, 114, 62, 60, 33, 45, 45, 97, 45, 45, 62, 98, 45, 45, 62, 60, 47, 114, 62>>,   \* '<r><!--a-->b--></r>'
      <<60, 114, 62, 60, 33, 91, 67, 68, 65, 84, 65, 91, 60, 97, 62, 38, 97, 109, 112, 59, 93, 93, 62, 93, 93, 62, 60, 47, 114, 62>>,   \* '<r><![CDATA[<a>&amp;]]>]]></r>'
      <<60, 114, 62, 60, 33, 91, 67, 68, 65, 84, 65, 91, 120>>,   \* '<r><![CDATA[x'
      <<60, 114, 62, 60, 33, 91, 67, 68, 65, 84, 65, 91, 93, 93, 62>>,   \* '<r><![CDATA[]]>'
      <<60, 114, 62, 60, 33, 91, 67, 68, 65, 84, 65, 91, 93, 93>>,   \* '<r><![CDATA[]]'
      <<60, 33, 45, 45, 32, 97, 32, 45, 45, 32, 98, 32, 45, 45, 62, 60, 114, 47, 62>>,   \* '<!-- a -- b --><r/>'
      <<60, 114, 47, 62, 32, 60, 33, 45, 45, 120>>,   \* '<r/> <!--x'
      <<60, 33, 45, 45, 38, 108, 116, 59, 45, 45, 45, 62, 10, 60, 114, 47, 62>> }   \* '<!--&lt;--->\n<r/>'

\* internal subsets: every quote closed, and no ']' outside quotes
Subsets ==
    { <<>>,   \* ''
      <<60, 33, 69, 78, 84, 73, 84, 89, 32, 101, 32, 34, 93, 34, 62>>,   \* '<!ENTITY e "]">'
      <<60, 33, 69, 78, 84, 73, 84, 89, 32, 101, 32, 39, 93, 39, 62>>,   \* "<!ENTITY e ']'>"
      <<60, 33, 69, 76, 69, 77, 69, 78, 84, 32, 114, 32, 40, 35, 80, 67, 68, 65, 84, 65, 41, 62, 10>>,   \* '<!ELEMENT r (#PCDATA)>\n'
      <<60, 33, 69, 78, 84, 73, 84, 89, 32, 97, 32, 34, 120, 39, 121, 93, 34, 62, 32, 60, 33, 69, 78, 84, 73, 84, 89, 32, 98, 32, 39, 34, 93, 62, 39, 62>>,   \* '<!ENTITY a "x\'y]"> <!ENTITY b \'"]>\'>'
      <<38, 108, 116, 59, 60, 114, 32, 97, 61, 34, 93, 93, 62, 34, 62>> }   \* '&lt;<r a="]]>">'

\* what precedes the '[' of the subset, after the name
SubsetLeads ==
    { <<>>,   \* ''
      <<32>>,   \* ' '
      <<32, 83, 89, 83, 84, 69, 77, 32, 34, 120, 34, 32>> }   \* ' SYSTEM "x" '

\* '<!DOCTYPE r' lead '[' sub ']' ws '>' '<r/>'
subsetDoc(lead, sub, ws) ==
    <<60, 33, 68, 79, 67, 84, 89, 80, 69, 32, 114>> \o lead \o <<91>> \o sub \o <<93>> \o ws
    \o <<62, 60, 114, 47, 62>>

SubsetDocs ==
    { subsetDoc(lead, sub, ws) : lead \in SubsetLeads, sub \in Subsets, ws \in {<<>>, <<10>>} }

\* the three attributes of the tags of DeclarationOrderDocs, as written and
\* as the Attribute each must become: p:k="1", xmlns:p="u" and xmlns="d"
TagAttrs ==
    << [text |-> <<32, 112, 58, 107, 61, 34, 49, 34>>,
        attr |-> [js |-> "object", name |-> Str(<<107>>), prefix |-> Str(<<112>>),
                  namespace |-> Str(<<117>>), value |-> Str(<<49>>)]],
       [text |-> <<32, 120, 109, 108, 110, 115, 58, 112, 61, 34, 117, 34>>,
        attr |-> [js |-> "object", name |-> Str(<<112>>), prefix |-> Str(<<120, 109, 108, 110, 115>>),
                  namespace |-> Str(XMLNS_NS), value |-> Str(<<117>>)]],
       [text |-> <<32, 120, 109, 108, 110, 115, 61, 34, 100, 34>>,
        attr |-> [js |-> "object", name |-> Str(<<120, 109, 108, 110, 115>>), prefix |-> Null,
                  namespace |-> Str(XMLNS_NS), value |-> Str(<<100>>)]] >>

\* the orders the three attributes can be written in
TagOrders == { o \in [1..3 -> 1..3] : \A i, j \in 1..3 : o[i] = o[j] => i = j }

\* the element names of the tags: 'p:r' and 'r'
TagNames == { <<112, 58, 114>>, <<114>> }

\* '<' name, the three attributes in the order o, and '/>' or '></' name '>'
orderedTag(name, o, selfClosing) ==
    <<60>> \o name \o TagAttrs[o[1]].text \o TagAttrs[o[2]].text \o TagAttrs[o[3]].text
    \o (IF selfClosing THEN <<47, 62>> ELSE <<62, 60, 47>> \o name \o <<62>>)

\* the tag as the root, or as the child of '<o xmlns:p="w" xmlns="e">'
declarationDoc(name, o, selfClosing, nested) ==
    IF nested
    THEN <<60, 111, 32, 120, 109, 108, 110, 115, 58, 112, 61, 34, 119, 34, 32, 120, 109, 108, 110, 115, 61, 34, 101, 34, 62>> \o orderedTag(name, o, selfClosing) \o <<60, 47, 111, 62>>
    ELSE orderedTag(name, o, selfClosing)

DeclarationOrderDocs ==
    { declarationDoc(name, o, selfClosing, nested) :
        name \in TagNames, o \in TagOrders, selfClosing \in BOOLEAN, nested \in BOOLEAN }

\* '<?xml' at the start and elsewhere, followed by white space, '?' or a name
\* character, and documents with more than one DOCTYPE or element written
PrologDocs ==
    { <<60, 63, 120, 109, 108, 32, 118, 101, 114, 115, 105, 111, 110, 61, 34, 49, 46, 48, 34, 63, 62, 60, 33, 45, 45, 97, 45, 45, 62, 60, 33, 68, 79, 67, 84, 89, 80, 69, 32, 114, 62, 60, 63, 112, 63, 62, 60, 114, 47, 62, 60, 33, 45, 45, 98, 45, 45, 62, 60, 63, 113, 63, 62>>,   \* '<?xml version="1.0"?><!--a--><!DOCTYPE r><?p?><r/><!--b--><?q?>'
      <<32, 60, 63, 120, 109, 108, 32, 118, 101, 114, 115, 105, 111, 110, 61, 34, 49, 46, 48, 34, 63, 62, 60, 114, 47, 62>>,   \* ' <?xml version="1.0"?><r/>'
      <<60, 33, 45, 45, 99, 45, 45, 62, 60, 63, 120, 109, 108, 32, 118, 101, 114, 115, 105, 111, 110, 61, 34, 49, 46, 48, 34, 63, 62, 60, 114, 47, 62>>,   \* '<!--c--><?xml version="1.0"?><r/>'
      <<60, 63, 120, 109, 108, 45, 115, 116, 121, 108, 101, 115, 104, 101, 101, 116, 32, 104, 114, 101, 102, 61, 34, 97, 34, 63, 62, 60, 114, 47, 62>>,   \* '<?xml-stylesheet href="a"?><r/>'
      <<60, 63, 120, 109, 108, 102, 111, 111, 63, 62, 60, 114, 47, 62>>,   \* '<?xmlfoo?><r/>'
      <<60, 63, 120, 109, 108>>,   \* '<?xml'
      <<60, 63, 120, 109, 108, 63, 62, 60, 114, 47, 62>>,   \* '<?xml?><r/>'
      <<60, 63, 120, 109, 108, 9, 118, 101, 114, 115, 105, 111, 110, 61, 34, 49, 46, 49, 34, 63, 62, 60, 114, 47, 62>>,   \* '<?xml\tversion="1.1"?><r/>'
      <<60, 63, 120, 109, 108, 10, 63, 62>>,   \* '<?xml\n?>'
      <<60, 114, 47, 62, 60, 63, 120, 109, 108, 32, 118, 101, 114, 115, 105, 111, 110, 61, 34, 49, 46, 48, 34, 63, 62>>,   \* '<r/><?xml version="1.0"?>'
      <<65279, 32, 60, 63, 120, 109, 108, 32, 63, 62, 60, 114, 47, 62>>,   \* '\ufeff <?xml ?><r/>'
      <<65279, 60, 63, 120, 109, 108, 32, 63, 62, 60, 114, 47, 62>>,   \* '\ufeff<?xml ?><r/>'
      <<65279, 60, 63, 120, 109, 108, 120, 32, 63, 62, 60, 114, 47, 62>>,   \* '\ufeff<?xmlx ?><r/>'
      <<60, 114, 62, 60, 63, 120, 109, 108, 32, 118, 101, 114, 115, 105, 111, 110, 61, 34, 49, 46, 48, 34, 63, 62, 60, 47, 114, 62>>,   \* '<r><?xml version="1.0"?></r>'
      <<60, 63, 120, 109, 108, 32, 118, 101, 114, 115, 105, 111, 110, 61, 34, 49, 46, 48, 34, 63, 62, 60, 63, 120, 109, 108, 32, 118, 101, 114, 115, 105, 111, 110, 61, 34, 49, 46, 48, 34, 63, 62, 60, 114, 47, 62>>,   \* '<?xml version="1.0"?><?xml version="1.0"?><r/>'
      <<60, 114, 47, 62, 60, 114, 47, 62>>,   \* '<r/><r/>'
      <<60, 114, 47, 62, 60, 33, 68, 79, 67, 84, 89, 80, 69, 32, 114, 62>>,   \* '<r/><!DOCTYPE r>'
      <<60, 33, 68, 79, 67, 84, 89, 80, 69, 32, 114, 62, 60, 33, 45, 45, 99, 45, 45, 62, 60, 114, 47, 62>>,   \* '<!DOCTYPE r><!--c--><r/>'
      <<60, 33, 68, 79, 67, 84, 89, 80, 69, 32, 97, 62, 60, 33, 68, 79, 67, 84, 89, 80, 69, 32, 98, 62, 60, 114, 47, 62>>,   \* '<!DOCTYPE a><!DOCTYPE b><r/>'
      <<60, 33, 68, 79, 67, 84, 89, 80, 69, 32, 114, 62>>,   \* '<!DOCTYPE r>'
      <<60, 63, 112, 63, 62>> }   \* '<?p?>'

\* what is written after '<r' in a start tag, and the (name, value) of the
\* attributes to be read from it
AttrRows ==
    { [text |-> <<32, 97, 61, 34, 49, 34, 32, 98, 61, 39, 50, 39>>,   \* ' a="1" b=\'2\''
         attrs |-> <<<<<<97>>, <<49>>>>, <<<<98>>, <<50>>>>>>],
      [text |-> <<32, 97, 32, 34, 118, 34>>,   \* ' a "v"'
         attrs |-> <<<<<<97>>, <<118>>>>>>],
      [text |-> <<32, 97, 61, 98>>,   \* ' a=b'
         attrs |-> <<<<<<97>>, <<98>>>>>>],
      [text |-> <<32, 97, 61, 98, 32, 99, 61, 100>>,   \* ' a=b c=d'
         attrs |-> <<<<<<97>>, <<98>>>>, <<<<99>>, <<100>>>>>>],
      [text |-> <<32, 97, 61, 39, 120, 39, 32, 97, 61, 34, 121, 34, 32, 97, 61, 39, 120, 39>>,   \* ' a=\'x\' a="y" a=\'x\''
         attrs |-> <<<<<<97>>, <<120>>>>, <<<<97>>, <<121>>>>, <<<<97>>, <<120>>>>>>],
      [text |-> <<32, 61, 34, 49, 34, 32, 97, 61, 34, 50, 34>>,   \* ' ="1" a="2"'
         attrs |-> <<<<<<97>>, <<50>>>>>>],
      [text |-> <<32, 49, 32, 45, 32, 46, 32, 97, 61, 49, 32, 44>>,   \* ' 1 - . a=1 ,'
         attrs |-> <<<<<<97>>, <<49>>>>>>],
      [text |-> <<32, 97, 61, 34, 120, 62, 121, 47, 62, 34, 32, 98, 61, 39, 34, 39>>,   \* ' a="x>y/>" b=\'"\''
         attrs |-> <<<<<<97>>, <<120, 62, 121, 47, 62>>>>, <<<<98>>, <<34>>>>>>],
      [text |-> <<32, 97, 9, 61, 10, 34, 49, 34>>,   \* ' a\t=\n"1"'
         attrs |-> <<<<<<97>>, <<49>>>>>>],
      [text |-> <<32, 97>>,   \* ' a'
         attrs |-> <<<<<<97>>, <<>>>>>>],
      [text |-> <<32, 97, 61>>,   \* ' a='
         attrs |-> <<<<<<97>>, <<>>>>>>],
      [text |-> <<32, 97, 61, 98, 47, 99>>,   \* ' a=b/c'
         attrs |-> <<<<<<97>>, <<98, 47, 99>>>>>>],
      [text |-> <<32, 97, 61, 34, 49, 34, 98, 61, 39, 50, 39, 99, 61, 51>>,   \* ' a="1"b=\'2\'c=3'
         attrs |-> <<<<<<97>>, <<49>>>>, <<<<98>>, <<50>>>>, <<<<99>>, <<51>>>>>>],
      [text |-> <<32, 97, 61, 39, 105, 116, 34, 115, 39, 32, 98>>,   \* ' a=\'it"s\' b'
         attrs |-> <<<<<<97>>, <<105, 116, 34, 115>>>>, <<<<98>>, <<>>>>>>],
      [text |-> <<32, 97, 32, 98, 61, 34, 49, 34>>,   \* ' a b="1"'
         attrs |-> <<<<<<97>>, <<98, 61, 34, 49, 34>>>>>>] }

\* how the tags end: '/>' and '></r>'
TagCloses == { <<47, 62>>, <<62, 60, 47, 114, 62>> }

AttrDocs == { <<60, 114>> \o row.text \o close : row \in AttrRows, close \in TagCloses }

\* inputs that end inside a construct, or are malformed where one begins
UnterminatedDocs ==
    { <<60, 114, 32, 97, 61, 34, 120>>,   \* '<r a="x'
      <<60, 114, 32, 97, 61, 39, 120>>,   \* "<r a='x"
      <<60, 114, 32, 97>>,   \* '<r a'
      <<60, 114, 32, 97, 61>>,   \* '<r a='
      <<60, 114, 32, 97, 61, 34, 38>>,   \* '<r a="&'
      <<60, 114, 32, 97, 61, 34, 38, 35>>,   \* '<r a="&#'
      <<60, 114, 32, 97, 61, 34, 38, 35, 120>>,   \* '<r a="&#x'
      <<60, 114>>,   \* '<r'
      <<60>>,   \* '<'
      <<60, 47>>,   \* '</'
      <<60, 114, 62, 60>>,   \* '<r><'
      <<60, 114, 62, 60, 47>>,   \* '<r></'
      <<60, 114, 62, 60, 47, 114>>,   \* '<r></r'
      <<60, 114, 62, 60, 47, 32, 114>>,   \* '<r></ r'
      <<60, 114, 62, 60, 33, 45, 45>>,   \* '<r><!--'
      <<60, 114, 62, 60, 33, 45>>,   \* '<r><!-'
      <<60, 114, 62, 60, 33, 91, 67, 68, 65, 84, 65, 91>>,   \* '<r><![CDATA['
      <<60, 114, 62, 60, 33, 91, 67, 68, 65, 84, 65, 91, 120, 93, 93>>,   \* '<r><![CDATA[x]]'
      <<60, 114, 62, 60, 63>>,   \* '<r><?'
      <<60, 114, 62, 60, 63, 112, 32>>,   \* '<r><?p '
      <<60, 114, 62, 60, 63, 112, 32, 63>>,   \* '<r><?p ?'
      <<60, 114, 62, 38>>,   \* '<r>&'
      <<60, 114, 62, 38, 35>>,   \* '<r>&#'
      <<60, 114, 62, 38, 35, 120>>,   \* '<r>&#x'
      <<60, 114, 62, 38, 35, 49>>,   \* '<r>&#1'
      <<60, 114, 62, 38, 97, 109>>,   \* '<r>&am'
      <<60, 114, 62, 120>>,   \* '<r>x'
      <<60, 33, 68, 79, 67, 84, 89, 80, 69>>,   \* '<!DOCTYPE'
      <<60, 33, 68, 79, 67, 84, 89, 80, 69, 32>>,   \* '<!DOCTYPE '
      <<60, 33, 68, 79, 67, 84, 89, 80, 69, 32, 114, 32, 91>>,   \* '<!DOCTYPE r ['
      <<60, 33, 68, 79, 67, 84, 89, 80, 69, 32, 114, 32, 91, 34>>,   \* '<!DOCTYPE r ["'
      <<60, 33, 68, 79, 67, 84, 89, 80, 69, 32, 114, 32, 91, 32, 93>>,   \* '<!DOCTYPE r [ ]'
      <<60, 33, 68, 79, 67, 84, 89, 80, 69, 32, 114, 32, 83, 89, 83, 84, 69, 77, 32, 34, 120>>,   \* '<!DOCTYPE r SYSTEM "x'
      <<60, 33, 68, 79, 67, 84, 89, 80, 69, 32, 114, 32, 83, 89, 83, 84, 69, 77>>,   \* '<!DOCTYPE r SYSTEM'
      <<60, 33, 68, 79, 67, 84, 89, 80, 69, 32, 114, 32, 80, 85, 66, 76, 73, 67, 32, 34, 97, 34, 32, 34, 98>>,   \* '<!DOCTYPE r PUBLIC "a" "b'
      <<60, 33, 100, 111, 99, 116, 121, 112, 101, 32, 114, 32, 112, 117, 98, 108, 105, 99, 32, 39, 97>>,   \* "<!doctype r public 'a"
      <<60, 63, 120, 109, 108, 32, 118, 101, 114, 115, 105, 111, 110, 61, 34, 49, 46, 48>>,   \* '<?xml version="1.0'
      <<60, 63, 120, 109, 108, 32>>,   \* '<?xml '
      <<60, 63, 120, 109, 108, 63>>,   \* '<?xml?'
      <<60, 63, 120, 109, 108, 32, 118, 101, 114, 115, 105, 111, 110, 61>>,   \* '<?xml version='
      <<60, 33, 45, 45>>,   \* '<!--'
      <<60, 63>>,   \* '<?'
      <<65279>>,   \* '\ufeff'
      <<65279, 60>>,   \* '\ufeff<'
      <<60, 114, 47, 62, 60, 33, 45, 45>>,   \* '<r/><!--'
      <<60, 114, 47, 62, 32, 60, 63, 112>>,   \* '<r/> <?p'
      <<60, 114, 32, 47>>,   \* '<r /'
      <<60, 114, 32, 47, 32, 62, 120>> }   \* '<r / >x'

\* the strings parse() is given
Inputs ==
    WellFormedDocs \cup TolerantDocs \cup ContentDocs \cup NamespaceDocs
    \cup NamespaceExamples \cup StrayLtDocs \cup BomDocs
    \cup ScopedSiblings \cup UnclosedScopes \cup EntityDocs \cup CharRefDocs
    \cup BomPrefixed \cup EmptyRootDocs \cup ErrorDocs
    \cup MismatchedCloseDocs \cup BrokenDoctypeDocs
    \cup PIDocs \cup SectionDocs \cup SubsetDocs
    \cup DeclarationOrderDocs \cup PrologDocs \cup AttrDocs
    \cup UnterminatedDocs

\* "<wrap>" and "</wrap>", the root element the tests wrap a fragment in
wrapOpen == <<60, 119, 114, 97, 112, 62>>
wrapClose == <<60, 47, 119, 114, 97, 112, 62>>

\* Text, Comment and CData nodes with any string value
LeafObjects == { Leaf(type, value) : type \in {"text", "comment", "cdata"}, value \in StringValues }

\* ProcessingInstruction nodes, the target empty or 'p', and one with no
\* property but its type
PIObjects ==
    { [js |-> "object", type |-> Str("processing-instruction"), target |-> Str(target),
       data |-> Str(data)] : target \in {<<>>, <<112>>}, data \in StringValues }
    \cup { [js |-> "object", type |-> Str("processing-instruction")] }

\* Element nodes: any string as the name, the children missing, empty, or an
\* array with null entries; and the three objects of the tolerance test
ElementObjects ==
    { [js |-> "object", type |-> Str("element"), name |-> Str(name)] : name \in StringValues }
    \cup { [js |-> "object", type |-> Str("element"), name |-> Str(name), prefix |-> Null,
            attributes |-> Arr(<<>>),
            children |-> Arr(<<Null, Leaf("text", <<111, 107>>), Null>>)] :
           name \in StringValues }
    \cup { [js |-> "object", type |-> Str("element"), name |-> Str(<<100, 105, 118>>),
            prefix |-> Null, namespace |-> Null,
            attributes |-> Arr(<<[js |-> "object", name |-> Str(<<99, 108, 97, 115, 115>>),
                                  value |-> Str(<<109, 97, 105, 110>>)]>>)],
           [js |-> "object", type |-> Str("element"), name |-> Str(<<115, 112, 97, 110>>),
            prefix |-> Null, namespace |-> Null,
            attributes |-> Arr(<<Null, [js |-> "object", name |-> Str(<<105, 100>>),
                                        prefix |-> Null, value |-> Str(<<49>>)]>>),
            children |-> Arr(<<>>)] }

\* XmlDeclaration, DocumentType and Document nodes, partial and complete
PrologObjects ==
    { [js |-> "object", type |-> Str("xml-declaration")],
      [js |-> "object", type |-> Str("xml-declaration"), version |-> Str(<<49, 46, 48>>),
       encoding |-> Null, standalone |-> Bool(TRUE)],
      [js |-> "object", type |-> Str("doctype")],
      [js |-> "object", type |-> Str("doctype"), name |-> Str(<<114>>), publicId |-> Null,
       systemId |-> Str(<<115>>), internalSubset |-> Null],
      [js |-> "object", type |-> Str("document")],
      [js |-> "object", type |-> Str("document"),
       children |-> Arr(<<Leaf("comment", <<99>>), Null>>)] }

\* values that are no node: null, a number, a string, an array, an object
\* without a type, with a type that is no string, with an unknown type
MistypedObjects ==
    { Null,
      [js |-> "number", v |-> 1],
      Str(<<97>>),
      Arr(<<Leaf("text", <<97>>)>>),
      [js |-> "object"],
      [js |-> "object", type |-> [js |-> "number", v |-> 1]],
      [js |-> "object", type |-> Str("unknown"), value |-> Str(<<97>>)] }

\* CDATA values with no, one and several ']]>', adjacent and overlapping
CDataValues ==
    { <<>>,   \* ''
      <<97>>,   \* 'a'
      <<93>>,   \* ']'
      <<93, 93>>,   \* ']]'
      <<93, 93, 62>>,   \* ']]>'
      <<97, 93, 93, 62, 98>>,   \* 'a]]>b'
      <<93, 93, 62, 93, 93, 62>>,   \* ']]>]]>'
      <<93, 93, 93, 62>>,   \* ']]]>'
      <<93, 93, 93, 93, 62, 62>>,   \* ']]]]>>'
      <<93, 93, 62, 93>>,   \* ']]>]'
      <<62, 93, 93, 62, 97, 93, 93, 62>>,   \* '>]]>a]]>'
      <<60, 120, 62, 38, 97, 109, 112, 59, 93, 93, 62>> }   \* '<x>&amp;]]>'

\* CData nodes with these values
CDataObjects == { Leaf("cdata", value) : value \in CDataValues }

\* partial and mistyped values, each with the string that serialize degrades
\* it to
DegradedOutputs ==
    {
      \* null / undefined -> ''
      [node |-> Null,
       text |-> <<>>],
      \* a number -> ''
      [node |-> [js |-> "number", v |-> 1],
       text |-> <<>>],
      \* a string -> ''
      [node |-> Str(<<97>>),
       text |-> <<>>],
      \* an array -> ''
      [node |-> Arr(<<Leaf("text", <<97>>)>>),
       text |-> <<>>],
      \* no type -> ''
      [node |-> [js |-> "object"],
       text |-> <<>>],
      \* a type that is no string -> ''
      [node |-> [js |-> "object", type |-> [js |-> "number", v |-> 1]],
       text |-> <<>>],
      \* an unknown type -> ''
      [node |-> [js |-> "object", type |-> Str("unknown"), value |-> Str(<<97>>)],
       text |-> <<>>],
      \* a type in another case -> ''
      [node |-> [js |-> "object", type |-> Str("Element"), name |-> Str(<<97>>)],
       text |-> <<>>],
      \* Text, no value -> ''
      [node |-> [js |-> "object", type |-> Str("text")],
       text |-> <<>>],
      \* Text, the value a number -> ''
      [node |-> [js |-> "object", type |-> Str("text"), value |-> [js |-> "number", v |-> 1]],
       text |-> <<>>],
      \* Comment, no value -> '<!---->'
      [node |-> [js |-> "object", type |-> Str("comment")],
       text |-> <<60, 33, 45, 45, 45, 45, 62>>],
      \* CData, the value null -> '<![CDATA[]]>'
      [node |-> [js |-> "object", type |-> Str("cdata"), value |-> Null],
       text |-> <<60, 33, 91, 67, 68, 65, 84, 65, 91, 93, 93, 62>>],
      \* PI, no target -> ''
      [node |-> [js |-> "object", type |-> Str("processing-instruction"), data |-> Str(<<100>>)],
       text |-> <<>>],
      \* PI, the data a number -> '<?p?>'
      [node |-> [js |-> "object", type |-> Str("processing-instruction"), target |-> Str(<<112>>), data |-> [js |-> "number", v |-> 1]],
       text |-> <<60, 63, 112, 63, 62>>],
      \* XmlDeclaration, no version -> '<?xml version="1.0"?>'
      [node |-> [js |-> "object", type |-> Str("xml-declaration")],
       text |-> <<60, 63, 120, 109, 108, 32, 118, 101, 114, 115, 105, 111, 110, 61, 34, 49, 46, 48, 34, 63, 62>>],
      \* XmlDeclaration, no property of the right type -> '<?xml version="1.0"?>'
      [node |-> [js |-> "object", type |-> Str("xml-declaration"), version |-> [js |-> "number", v |-> 1], encoding |-> [js |-> "number", v |-> 1], standalone |-> Str(<<121, 101, 115>>)],
       text |-> <<60, 63, 120, 109, 108, 32, 118, 101, 114, 115, 105, 111, 110, 61, 34, 49, 46, 48, 34, 63, 62>>],
      \* XmlDeclaration, no encoding -> '<?xml version="1.1" standalone="no"?>'
      [node |-> [js |-> "object", type |-> Str("xml-declaration"), version |-> Str(<<49, 46, 49>>), standalone |-> Bool(FALSE)],
       text |-> <<60, 63, 120, 109, 108, 32, 118, 101, 114, 115, 105, 111, 110, 61, 34, 49, 46, 49, 34, 32, 115, 116, 97, 110, 100, 97, 108, 111, 110, 101, 61, 34, 110, 111, 34, 63, 62>>],
      \* DocumentType, no name -> '<!DOCTYPE >'
      [node |-> [js |-> "object", type |-> Str("doctype")],
       text |-> <<60, 33, 68, 79, 67, 84, 89, 80, 69, 32, 62>>],
      \* DocumentType, a public but no system identifier -> '<!DOCTYPE r PUBLIC "p" "">'
      [node |-> [js |-> "object", type |-> Str("doctype"), name |-> Str(<<114>>), publicId |-> Str(<<112>>)],
       text |-> <<60, 33, 68, 79, 67, 84, 89, 80, 69, 32, 114, 32, 80, 85, 66, 76, 73, 67, 32, 34, 112, 34, 32, 34, 34, 62>>],
      \* Document, no children -> ''
      [node |-> [js |-> "object", type |-> Str("document")],
       text |-> <<>>],
      \* Document, the children a string -> ''
      [node |-> [js |-> "object", type |-> Str("document"), children |-> Str(<<97>>)],
       text |-> <<>>],
      \* Document, children that are no nodes -> '<!--c-->'
      [node |-> [js |-> "object", type |-> Str("document"), children |-> Arr(<<Null, [js |-> "number", v |-> 1], Leaf("comment", <<99>>)>>)],
       text |-> <<60, 33, 45, 45, 99, 45, 45, 62>>],
      \* Element, no attributes and no children -> '<a/>'
      [node |-> [js |-> "object", type |-> Str("element"), name |-> Str(<<97>>)],
       text |-> <<60, 97, 47, 62>>],
      \* Element, attributes and children that are no arrays -> '<a/>'
      [node |-> [js |-> "object", type |-> Str("element"), name |-> Str(<<97>>), attributes |-> Str(<<120>>), children |-> [js |-> "number", v |-> 1]],
       text |-> <<60, 97, 47, 62>>],
      \* Element, the name a number: the children alone -> 'a'
      [node |-> [js |-> "object", type |-> Str("element"), name |-> [js |-> "number", v |-> 1], children |-> Arr(<<Leaf("text", <<97>>)>>)],
       text |-> <<97>>],
      \* Element, attributes without a name or a value -> '<a k=""/>'
      [node |-> [js |-> "object", type |-> Str("element"), name |-> Str(<<97>>), prefix |-> [js |-> "number", v |-> 1], attributes |-> Arr(<<Null, [js |-> "object", value |-> Str(<<118>>)], [js |-> "object", name |-> Str(<<107>>), prefix |-> Str(<<>>), value |-> [js |-> "number", v |-> 1]]>>), children |-> Arr(<<>>)],
       text |-> <<60, 97, 32, 107, 61, 34, 34, 47, 62>>] }

\* the partial and mistyped values alone
PartialObjects == { d.node : d \in DegradedOutputs }

\* strings with the characters that are markup in text or in an attribute
\* value, and with text that looks like a reference
EscapeValues ==
    { <<>>,   \* ''
      <<97>>,   \* 'a'
      <<32>>,   \* ' '
      <<38>>,   \* '&'
      <<60>>,   \* '<'
      <<62>>,   \* '>'
      <<34>>,   \* '"'
      <<39>>,   \* "'"
      <<38, 38>>,   \* '&&'
      <<38, 97, 109, 112, 59>>,   \* '&amp;'
      <<38, 108, 116, 59>>,   \* '&lt;'
      <<38, 113, 117, 111, 116, 59>>,   \* '&quot;'
      <<38, 35, 51, 56, 59>>,   \* '&#38;'
      <<97, 32, 38, 32, 98>>,   \* 'a & b'
      <<97, 60, 98, 62, 38, 34, 99, 39>>,   \* 'a<b>&"c\''
      <<34, 39, 34>>,   \* '"\'"'
      <<93, 93, 62>>,   \* ']]>'
      <<9, 10>>,   \* '\t\n'
      <<60, 47, 119, 114, 97, 112, 62>>,   \* '</wrap>'
      <<60, 33, 45, 45>> }   \* '<!--'

\* Text nodes with these values
TextObjects == { Leaf("text", value) : value \in EscapeValues }

\* the element <e k="value"/> as parse returns it
AttrObject(value) ==
    [js |-> "object", type |-> Str("element"), name |-> Str(<<101>>), prefix |-> Null,
     namespace |-> Null,
     attributes |-> Arr(<<[js |-> "object", name |-> Str(<<107>>), prefix |-> Null,
                           namespace |-> Null, value |-> Str(value)]>>),
     children |-> Arr(<<>>)]

AttrObjects == { AttrObject(value) : value \in EscapeValues }

\* what the children of an element node may be: null, a number, no child,
\* and children that are written as nothing or as something
ChildrenValues ==
    { Null,
      [js |-> "number", v |-> 1],
      Arr(<<>>),
      Arr(<<Null>>),
      Arr(<<Leaf("text", <<>>)>>),
      Arr(<<Leaf("text", <<120>>)>>),
      Arr(<<[js |-> "object", type |-> Str("element"), name |-> Str(<<98>>)]>>) }

\* elements a and p:a, with and without an attribute, with these children
ChildObjects ==
    { [js |-> "object", type |-> Str("element"), name |-> Str(<<97>>), prefix |-> prefix,
       attributes |-> attributes, children |-> kids] :
      prefix \in {Null, Str(<<112>>)},
      attributes \in {Null, Arr(<<[js |-> "object", name |-> Str(<<107>>), value |-> Str(<<118>>)]>>)},
      kids \in ChildrenValues }

\* the values serialize() is given
NodeObjects ==
    LeafObjects \cup PIObjects \cup ElementObjects \cup PrologObjects \cup MistypedObjects
    \cup CDataObjects \cup PartialObjects \cup TextObjects \cup AttrObjects \cup ChildObjects

\* ------------------------------------------------------------------------
\* Specification
\* ------------------------------------------------------------------------

\* parse(x) of an input string x, or parse("<wrap>" + serialize(T) + "</wrap>")
\* of a node object T
Init ==
    /\ first = Null
    /\ \/ /\ \E x \in Inputs : input = Str(x) /\ Fresh(x)
          /\ wrapped = FALSE
          /\ round = 1
       \/ /\ \E T \in NodeObjects :
                input = T /\ Fresh(wrapOpen \o serialize(T) \o wrapClose)
          /\ wrapped = TRUE
          /\ round = 2

Next ==
    \/ StripBOM
    \/ XmlDeclaration
    \/ Misc
    \/ Doctype
    \/ Root
    \/ Children
    \/ Diverge
    \/ Return
    \/ Reparse
    \/ ParseWithoutBOM

Spec == Init /\ [][Next]_vars

\* ------------------------------------------------------------------------
\* Properties
\* ------------------------------------------------------------------------

\* C1: for every well-formed input X, the parse of serialize(parse(X))
\* returns a Document that is deeply equal to parse(X).
RoundTripWellFormed ==
    (~wrapped /\ round = 2 /\ input.v \in WellFormedDocs)
        => /\ pc \notin {"thrown", "diverged"}
           /\ pc = "returned" => doc = first

\* C2: parse terminates on every input string, by returning a Document or by
\* throwing a ParseError: it enters no loop that it never leaves, because
\* every iteration of the Misc loop and of the child loop advances the cursor.
ParseTerminates ==
    /\ [](pc # "diverged")
    /\ [][(pc' = pc /\ pc \in {"misc1", "misc2", "misc3", "children"}
           /\ Len(stack') >= Len(stack)) => pos' > pos]_vars

\* C3: for every input on which parse returns a Document D, well-formed or
\* recovered, the parse of serialize(D) does not throw and returns a Document
\* deeply equal to D.
RoundTripReturned ==
    (~wrapped /\ round = 2)
        => /\ pc # "thrown"
           /\ pc = "returned" => doc = first

\* C4: for every node object T, partial and mistyped ones included, the parse
\* of "<wrap>" + serialize(T) + "</wrap>" completes without error.
WrappedOutputParses == wrapped => pc \notin {"thrown", "diverged"}

\* the inputs in which a root element start tag follows the optional XML
\* declaration, Misc and DOCTYPE, each of these well-formed or malformed
RootedDocs ==
    Docs(WellFormedXmlDecls \cup BrokenXmlDecls, {<<>>, <<10>>},
         WellFormedDoctypes \cup BrokenDoctypes,
         WellFormedRoots \cup {<<60, 114, 62>>},
         {<<>>, <<120>>, <<60, 33, 45, 45, 99, 45, 45, 62>>})

\* C5: parse throws a ParseError only when no root element can be located:
\* on an input in which a root element start tag follows the prolog it throws
\* none, whatever malformations the prolog or the content has.
OnlyMissingRootIsFatal ==
    (~wrapped /\ round = 1 /\ input.v \in RootedDocs) => pc # "thrown"

\* the inputs without any element: a prolog and Misc, or plain text
NoElementDocs ==
    Docs(WellFormedXmlDecls, {<<>>, <<10>>}, WellFormedDoctypes, NoRoots,
         {<<>>, <<120>>, <<60, 33, 45, 45, 99, 45, 45, 62>>})

\* C6: on every non-empty input in which no element is found (only white
\* space, comments or processing instructions, or plain text) parse throws a
\* ParseError and returns no Document.
MissingElementIsFatal ==
    (~wrapped /\ round = 1 /\ input.v \in NoElementDocs /\ input.v # <<>>)
        => pc # "returned"

\* C7: parse throws a ParseError when given the empty string, so it never
\* returns on it.
EmptyInputIsFatal ==
    (~wrapped /\ round = 1 /\ input = Str(<<>>)) => pc # "returned"

\* a '<' at p that is not followed by a name-start character, ':' or '_' and
\* opens no closing tag, comment, CDATA section or processing instruction
strayLtAt(s, p) ==
    /\ p < Len(s)
    /\ s[p + 1] = 60
    /\ ~(p + 1 < Len(s) /\ (isNameStartChar(s[p + 2]) \/ s[p + 2] \in {58, 95}))
    /\ \A open \in {Lit.close, Lit.comment, Lit.cdata, Lit.pi} :
           ~(p + Len(open) <= Len(s) /\ SubSeq(s, p + 1, p + Len(open)) = open)

\* the last child of the element whose content is being parsed, Null if none
lastChild(frames) ==
    IF frames = <<>> \/ frames[Len(frames)].children = <<>> THEN Null
    ELSE frames[Len(frames)].children[Len(frames[Len(frames)].children)]

\* C8: in element content a stray '<' is literal text: the step of the child
\* loop that finds the cursor on one leaves the '<' in a Text child of the
\* element and the cursor after it, and parsing goes on.
StrayLtIsText ==
    [][(pc = "children" /\ strayLtAt(src, pos))
          => /\ pc' = "children"
             /\ pos' > pos
             /\ lastChild(stack') # Null
             /\ lastChild(stack').type = Str("text")
             /\ \E i \in 1..Len(lastChild(stack').value.v) :
                    lastChild(stack').value.v[i] = 60]_vars

\* the attributes in attrs that declare key: xmlns="..." for the empty key
\* (the default namespace), xmlns:key="..." for a prefix
declaring(attrs, key) ==
    { i \in 1..Len(attrs) :
        IF key = <<>>
        THEN attrs[i].prefix = Null /\ attrs[i].name = Str(Lit.xmlns)
        ELSE attrs[i].prefix = Str(Lit.xmlns) /\ attrs[i].name = Str(key) }

Max(S) == CHOOSE x \in S : \A y \in S : y <= x

\* the namespace of key on a path of attribute lists, the root element's
\* first: the URI of the innermost element that declares key, null when that
\* URI is empty or no element declares key
bound(path, key) ==
    LET scopes == { i \in 1..Len(path) : declaring(path[i], key) # {} }
    IN IF scopes = {} THEN Null
       ELSE LET attrs == path[Max(scopes)]
                uri == attrs[Max(declaring(attrs, key))].value
            IN IF uri = Str(<<>>) THEN Null ELSE uri

reserved(prefix) == prefix \in {Str(Lit.xml), Str(Lit.xmlns)}

\* every element of the tree under node, and every prefixed attribute in it,
\* has the namespace that its prefix is bound to on its path
RECURSIVE resolved(_, _)
resolved(node, path) ==
    node.type = Str("element") =>
        LET attrs == node.attributes.v
            here == Append(path, attrs)
        IN /\ ~reserved(node.prefix)
                => node.namespace = bound(here, IF node.prefix = Null THEN <<>> ELSE node.prefix.v)
           /\ \A i \in 1..Len(attrs) :
                  (attrs[i].prefix # Null /\ ~reserved(attrs[i].prefix))
                      => attrs[i].namespace = bound(here, attrs[i].prefix.v)
           /\ \A i \in 1..Len(node.children.v) : resolved(node.children.v[i], here)

\* C9: a prefix, or the default namespace of an unprefixed element, resolves
\* to the URI of the innermost scope that binds it; an empty URI there gives
\* null even when an outer scope binds the key; a key bound nowhere gives null
\* and no error, so <UNDECLARED:foo/> has prefix UNDECLARED and namespace null.
ResolvesInnermostFirst ==
    /\ pc = "returned"
          => \A i \in 1..Len(doc.children.v) : resolved(doc.children.v[i], <<>>)
    /\ (~wrapped /\ round = 1 /\ pc \in {"returned", "thrown", "diverged"}
        /\ input = Str(<<60, 85, 78, 68, 69, 67, 76, 65, 82, 69, 68, 58, 102, 111, 111, 47, 62>>))
          => /\ pc = "returned"
             /\ doc.children.v[1].prefix = Str(<<85, 78, 68, 69, 67, 76, 65, 82, 69, 68>>)
             /\ doc.children.v[1].namespace = Null

\* parse('<r xmlns="u"><b xmlns=""><c/></b></r>') has returned: r is in the
\* namespace u, and b and c, under xmlns="", are in none
ShadowedDefaultNamespace ==
    /\ pc = "returned"
    /\ round = 1
    /\ input = Str(<<60, 114, 32, 120, 109, 108, 110, 115, 61, 34, 117, 34, 62, 60, 98, 32, 120, 109, 108, 110, 115, 61, 34, 34, 62, 60, 99, 47, 62, 60, 47, 98, 62, 60, 47, 114, 62>>)
    /\ doc.children.v[1].namespace = Str(<<117>>)
    /\ doc.children.v[1].children.v[1].namespace = Null
    /\ doc.children.v[1].children.v[1].children.v[1].namespace = Null

\* 'http://www.w3.org/XML/1998/namespace'
XmlNamespaceURI == Str(<<104, 116, 116, 112, 58, 47, 47, 119, 119, 119, 46, 119, 51, 46, 111, 114, 103, 47, 88, 77, 76, 47, 49, 57, 57, 56, 47, 110, 97, 109, 101, 115, 112, 97, 99, 101>>)

\* 'http://www.w3.org/2000/xmlns/'
XmlnsNamespaceURI == Str(<<104, 116, 116, 112, 58, 47, 47, 119, 119, 119, 46, 119, 51, 46, 111, 114, 103, 47, 50, 48, 48, 48, 47, 120, 109, 108, 110, 115, 47>>)

\* the namespace that a reserved name must have: x is an element or an
\* attribute; isAttr tells which
fixed(x, isAttr) ==
    /\ x.prefix = Str(Lit.xml) => x.namespace = XmlNamespaceURI
    /\ x.prefix = Str(Lit.xmlns) => x.namespace = XmlnsNamespaceURI
    /\ (isAttr /\ x.prefix = Null /\ x.name = Str(Lit.xmlns)) => x.namespace = XmlnsNamespaceURI

\* every element and attribute of the tree under node has the namespace its
\* reserved name fixes
RECURSIVE fixedBindings(_)
fixedBindings(node) ==
    node.type = Str("element") =>
        /\ fixed(node, FALSE)
        /\ \A i \in 1..Len(node.attributes.v) : fixed(node.attributes.v[i], TRUE)
        /\ \A i \in 1..Len(node.children.v) : fixedBindings(node.children.v[i])

\* C10: in every tree parse returns, an element or attribute with prefix xml
\* is in the XML namespace, and one with prefix xmlns, and every bare xmlns
\* attribute, is in the XMLNS namespace, whatever the input declares.
ReservedPrefixesAreFixed ==
    pc = "returned" => \A i \in 1..Len(doc.children.v) : fixedBindings(doc.children.v[i])

\* parse('<r xmlns:xml="o"><xml:b xml:lang="e"></xml:b></r>') has returned:
\* the declaration is an attribute of r, and xml:b and xml:lang are in the
\* XML namespace all the same
RebindingXmlIsIgnored ==
    /\ pc = "returned"
    /\ round = 1
    /\ input = Str(<<60, 114, 32, 120, 109, 108, 110, 115, 58, 120, 109, 108, 61, 34, 111, 34, 62, 60, 120, 109, 108, 58, 98, 32, 120, 109, 108, 58, 108, 97, 110, 103, 61, 34, 101, 34, 62, 60, 47, 120, 109, 108, 58, 98, 62, 60, 47, 114, 62>>)
    /\ doc.children.v[1].attributes.v[1].value = Str(<<111>>)
    /\ doc.children.v[1].attributes.v[1].namespace = XmlnsNamespaceURI
    /\ doc.children.v[1].children.v[1].prefix = Str(Lit.xml)
    /\ doc.children.v[1].children.v[1].namespace = XmlNamespaceURI
    /\ doc.children.v[1].children.v[1].attributes.v[1].namespace = XmlNamespaceURI


\* in the tree under node, on the path of attribute lists from the root: an
\* attribute without a prefix that is not the bare xmlns has no namespace, and
\* an element without a prefix has the default namespace in scope
RECURSIVE unprefixed(_, _)
unprefixed(node, path) ==
    node.type = Str("element") =>
        /\ \A i \in 1..Len(node.attributes.v) :
               (node.attributes.v[i].prefix = Null /\ node.attributes.v[i].name # Str(Lit.xmlns))
                   => node.attributes.v[i].namespace = Null
        /\ node.prefix = Null
               => node.namespace = bound(Append(path, node.attributes.v), <<>>)
        /\ \A i \in 1..Len(node.children.v) :
               unprefixed(node.children.v[i], Append(path, node.attributes.v))

\* C11: in every tree parse returns, every attribute without a prefix, other
\* than the bare xmlns declaration, has namespace null whatever default
\* namespace is in scope, while an unprefixed element has the default
\* namespace in scope.
UnprefixedAttributesHaveNoNamespace ==
    pc = "returned" => \A i \in 1..Len(doc.children.v) : unprefixed(doc.children.v[i], <<>>)

\* parse('<r xmlns="u"><b k="1"></b></r>') has returned: b is in the default
\* namespace u and its attribute k is in none
AttributeUnderDefaultNamespace ==
    /\ pc = "returned"
    /\ round = 1
    /\ input = Str(<<60, 114, 32, 120, 109, 108, 110, 115, 61, 34, 117, 34, 62, 60, 98, 32, 107, 61, 34, 49, 34, 62, 60, 47, 98, 62, 60, 47, 114, 62>>)
    /\ doc.children.v[1].children.v[1].namespace = Str(<<117>>)
    /\ doc.children.v[1].children.v[1].attributes.v[1].name = Str(<<107>>)
    /\ doc.children.v[1].children.v[1].attributes.v[1].prefix = Null
    /\ doc.children.v[1].children.v[1].attributes.v[1].namespace = Null

\* C12: each element pushes one scope and pops it when it ends, however it
\* ends: the scope stack always has the seeded bottom scope and one scope per
\* open element, it holds the bottom scope alone when parse returns, and in
\* the tree returned no element or attribute resolves against a declaration
\* made outside its own ancestors, so a following sibling sees none of the
\* declarations of the element before it.
ScopesArePopped ==
    /\ Len(nsStack) = 1 + Len(stack)
    /\ nsStack[1] = seedScope
    /\ pc = "returned"
          => /\ nsStack = <<seedScope>>
             /\ \A i \in 1..Len(doc.children.v) : resolved(doc.children.v[i], <<>>)

\* parse('<r><b xmlns="w"/><c/></r>') has returned: b is in the namespace w
\* that it declares, its sibling c is in none, and the stack is the bottom
\* scope alone
SiblingOutsideScope ==
    /\ pc = "returned"
    /\ round = 1
    /\ input = Str(<<60, 114, 62, 60, 98, 32, 120, 109, 108, 110, 115, 61, 34, 119, 34, 47, 62, 60, 99, 47, 62, 60, 47, 114, 62>>)
    /\ doc.children.v[1].children.v[1].namespace = Str(<<119>>)
    /\ doc.children.v[1].children.v[2].name = Str(<<99>>)
    /\ doc.children.v[1].children.v[2].namespace = Null
    /\ nsStack = <<seedScope>>


\* parse has ended on an input string: it returned, threw, or loops forever
Ended == ~wrapped /\ round = 1 /\ pc \in {"returned", "thrown", "diverged"}

\* if the input is refDoc(e, after): parse has returned, and the attribute
\* value and the only child, a Text, are both `value` followed by `after`
decodes(e, after, value) ==
    input = Str(refDoc(e, after))
        => /\ pc = "returned"
           /\ doc.children.v[1].attributes.v[1].value = Str(value \o after)
           /\ doc.children.v[1].children.v = <<Leaf("text", value \o after)>>

\* C13: in text content and in quoted attribute values the five predefined
\* entity references decode to & < > ' ", also without the terminating ';'
\* (the name ending where the next character is no name character), and
\* &#169; and &#xA9; both decode to the character with code point 169.
PredefinedEntitiesDecode ==
    Ended =>
        /\ \A ref \in PredefinedRefs : \A semi \in {<<59>>, <<>>} : \A after \in Afters :
               decodes(<<38>> \o ref.name \o semi, after, <<ref.char>>)
        /\ decodes(<<38, 35, 49, 54, 57, 59>>, <<>>, <<169>>)
        /\ decodes(<<38, 35, 120, 65, 57, 59>>, <<>>, <<169>>)

\* parse('<r k="&lt">&lt</r>') has returned: the attribute value and the text
\* are both '<'
EntityWithoutSemicolonDecoded ==
    /\ pc = "returned"
    /\ round = 1
    /\ input = Str(<<60, 114, 32, 107, 61, 34, 38, 108, 116, 34, 62, 38, 108, 116, 60, 47, 114, 62>>)
    /\ doc.children.v[1].attributes.v[1].value = Str(<<60>>)
    /\ doc.children.v[1].children.v = <<Leaf("text", <<60>>)>>

\* C14: a named entity reference '&name;' whose name is none of amp, lt, gt,
\* apos, quot decodes to itself, character for character, whatever the name.
UnknownEntityIsVerbatim ==
    Ended =>
        \A name \in UnknownNames : \A after \in Afters :
            decodes(<<38>> \o name \o <<59>>, after, <<38>> \o name \o <<59>>)

\* the code points of a string of UTF-16 code units
RECURSIVE codePointsOf(_)
codePointsOf(str) ==
    IF str = <<>> THEN <<>>
    ELSE IF /\ Len(str) >= 2
            /\ str[1] >= 55296 /\ str[1] <= 56319
            /\ str[2] >= 56320 /\ str[2] <= 57343
         THEN <<65536 + (str[1] - 55296) * 1024 + (str[2] - 56320)>>
              \o codePointsOf(SubSeq(str, 3, Len(str)))
         ELSE <<str[1]>> \o codePointsOf(Tail(str))

\* the code point a character reference with the value n stands for
charOf(n) ==
    IF n = 0 \/ (n >= 55296 /\ n <= 57343) \/ n > 1114111 THEN 65533 ELSE n

\* if the input is refDoc(e, ""): parse has returned, and the attribute value
\* and the only child, a Text, are both the one character with code point cp
decodesTo(e, cp) ==
    input = Str(refDoc(e, <<>>))
        => /\ pc = "returned"
           /\ codePointsOf(doc.children.v[1].attributes.v[1].value.v) = <<cp>>
           /\ doc.children.v[1].children.v[1].type = Str("text")
           /\ codePointsOf(doc.children.v[1].children.v[1].value.v) = <<cp>>
           /\ Len(doc.children.v[1].children.v) = 1

\* C15: a numeric character reference never makes parse fail: without digits,
\* with the value 0, a value in 0xD800..0xDFFF or a value above 0x10FFFF,
\* whatever the number of digits, it decodes to U+FFFD; with any other value
\* it decodes to exactly that code point.
CharRefsNeverFail ==
    Ended =>
        /\ \A n \in CodePoints : \A e \in charRefs(n) : decodesTo(e, charOf(n))
        /\ \A e \in NoDigitRefs \cup HugeRefs : decodesTo(e, 65533)

\* parse('<r k="&#xD800;">&#xD800;</r>') has returned: the attribute value
\* and the text are both U+FFFD
SurrogateReplaced ==
    /\ pc = "returned"
    /\ round = 1
    /\ input = Str(<<60, 114, 32, 107, 61, 34, 38, 35, 120, 68, 56, 48, 48, 59, 34, 62, 38, 35, 120, 68, 56, 48, 48, 59, 60, 47, 114, 62>>)
    /\ doc.children.v[1].attributes.v[1].value = Str(<<65533>>)
    /\ doc.children.v[1].children.v = <<Leaf("text", <<65533>>)>>


\* the children of the element <wrap> that the parse of a wrapped output
\* returned
wrapChildren == doc.children.v[1].children.v

\* the values of a sequence of nodes, concatenated in order
RECURSIVE values(_)
values(nodes) ==
    IF nodes = <<>> THEN <<>> ELSE Head(nodes).value.v \o values(Tail(nodes))

\* a sequence of nodes written as adjacent CDATA sections, each value as it is
RECURSIVE sections(_)
sections(nodes) ==
    IF nodes = <<>> THEN <<>>
    ELSE Lit.cdata \o Head(nodes).value.v \o Lit.cdataEnd \o sections(Tail(nodes))

\* str has ']]>' in it
hasCDataEnd(str) == \E i \in 1..(Len(str) - 2) : SubSeq(str, i, i + 2) = <<93, 93, 62>>

\* C16: for every CDATA value V, with no, one or several ']]>', the output of
\* serialize is adjacent CDATA sections and nothing else, none with ']]>' in
\* its content, and its parse inside an element returns CData children only,
\* whose values concatenated in order are exactly V.
SplitCDataRoundTrips ==
    (wrapped /\ input \in CDataObjects /\ pc \in {"returned", "thrown", "diverged"})
        => /\ pc = "returned"
           /\ \A i \in 1..Len(wrapChildren) :
                  /\ wrapChildren[i].type = Str("cdata")
                  /\ ~hasCDataEnd(wrapChildren[i].value.v)
           /\ values(wrapChildren) = input.value.v
           /\ src = wrapOpen \o sections(wrapChildren) \o wrapClose

\* the parse of the wrapped output for the CDATA value ']]>]]>' has returned:
\* three CData children, ']', ']>]' and ']>'
CDataSplitTwice ==
    /\ wrapped
    /\ pc = "returned"
    /\ input = Leaf("cdata", <<93, 93, 62, 93, 93, 62>>)
    /\ wrapChildren = <<Leaf("cdata", <<93>>), Leaf("cdata", <<93, 62, 93>>),
                        Leaf("cdata", <<93, 62>>)>>

\* C17: serialize raises nothing and degrades: null, undefined, a value that
\* is no object, and an object whose type is missing or is none of the eight
\* kinds give the empty string; children and attributes that are missing or no
\* array count as empty; scalar properties that are missing or of the wrong
\* type count as the empty string, but a missing version is written as 1.0.
SerializeDegrades ==
    wrapped =>
        \A d \in DegradedOutputs :
            input = d.node => src = wrapOpen \o d.text \o wrapClose

\* serialize({ type: 'xml-declaration' }) gave '<?xml version="1.0"?>', and
\* the parse of it inside <wrap> has returned
MissingVersionDefaults ==
    /\ wrapped
    /\ pc = "returned"
    /\ input = [js |-> "object", type |-> Str("xml-declaration")]
    /\ src = wrapOpen \o <<60, 63, 120, 109, 108, 32, 118, 101, 114, 115, 105, 111, 110, 61, 34, 49, 46, 48, 34, 63, 62>> \o wrapClose


\* C18: for every input X that does not begin with U+FEFF, the parse of
\* U+FEFF followed by X has the outcome of the parse of X: the same Document
\* when one returns, so with the BOM in no node, and an error in the one
\* exactly when there is an error in the other.
BomIsIgnored ==
    (round = 3 /\ CharCodeAt(input.v, 1) # 65279 /\ pc \in {"returned", "thrown", "diverged"})
        => /\ pc = "returned" => first = doc
           /\ pc = "thrown" => first.js = "ParseError"
           /\ pc = "diverged" => first.js = "diverged"

\* parse('﻿<?xml version="1.0"?><r/>') and parse('<?xml version="1.0"?><r/>')
\* have both returned, the same Document with the declaration and r
BomBeforeDeclaration ==
    /\ round = 3
    /\ pc = "returned"
    /\ input = Str(<<65279, 60, 63, 120, 109, 108, 32, 118, 101, 114, 115, 105, 111, 110, 61, 34, 49, 46, 48, 34, 63, 62, 60, 114, 47, 62>>)
    /\ first = doc
    /\ Len(doc.children.v) = 2
    /\ doc.children.v[1].type = Str("xml-declaration")
    /\ doc.children.v[2].name = Str(<<114>>)


\* what a character of a Text value is written as
textEscape(c) ==
    CASE c = 38 -> <<38, 97, 109, 112, 59>>
      [] c = 60 -> <<38, 108, 116, 59>>
      [] c = 62 -> <<38, 103, 116, 59>>
      [] OTHER -> <<c>>

\* what a character of an attribute value is written as
attrEscape(c) ==
    CASE c = 38 -> <<38, 97, 109, 112, 59>>
      [] c = 60 -> <<38, 108, 116, 59>>
      [] c = 34 -> <<38, 113, 117, 111, 116, 59>>
      [] OTHER -> <<c>>

\* a Text value with each character written as textEscape writes it
RECURSIVE textEscaped(_)
textEscaped(str) ==
    IF str = <<>> THEN <<>> ELSE textEscape(Head(str)) \o textEscaped(Tail(str))

\* an attribute value with each character written as attrEscape writes it
RECURSIVE attrEscaped(_)
attrEscaped(str) ==
    IF str = <<>> THEN <<>> ELSE attrEscape(Head(str)) \o attrEscaped(Tail(str))

\* C19: serialize writes & < > of a Text value as &amp; &lt; &gt; and & < "
\* of an attribute value as &amp; &lt; &quot;, the attribute value between
\* double quotes, and every other character as it is; the parse of the output
\* gives back the Text value and the attribute value exactly.
EscapesRoundTrip ==
    (wrapped /\ (input \in TextObjects \/ input \in AttrObjects))
        => /\ input \in TextObjects
                 => src = wrapOpen \o textEscaped(input.value.v) \o wrapClose
           /\ input \in AttrObjects
                 => src = wrapOpen \o <<60, 101, 32, 107, 61, 34>>
                          \o attrEscaped(input.attributes.v[1].value.v)
                          \o <<34, 47, 62>> \o wrapClose
           /\ pc \notin {"thrown", "diverged"}
           /\ (pc = "returned" /\ input \in TextObjects)
                 => wrapChildren = IF input.value.v = <<>> THEN <<>> ELSE <<input>>
           /\ (pc = "returned" /\ input \in AttrObjects)
                 => wrapChildren = <<input>>

\* the parse of '<wrap><e k="a&lt;b>&amp;&quot;c'"/></wrap>', the output for
\* the attribute value a<b>&"c', has returned that value
AttributeValueRestored ==
    /\ wrapped
    /\ pc = "returned"
    /\ input = AttrObject(<<97, 60, 98, 62, 38, 34, 99, 39>>)
    /\ src = wrapOpen \o <<60, 101, 32, 107, 61, 34, 97, 38, 108, 116, 59, 98, 62, 38, 97, 109, 112, 59, 38, 113, 117, 111, 116, 59, 99, 39, 34, 47, 62>> \o wrapClose
    /\ wrapChildren[1].attributes.v[1].value = Str(<<97, 60, 98, 62, 38, 34, 99, 39>>)

\* str ends with suffix
endsWith(str, suffix) ==
    Len(str) >= Len(suffix) /\ SubSeq(str, Len(str) - Len(suffix) + 1, Len(str)) = suffix

\* the output for an element node with a name: '<' tag attrs '/>' when it has
\* no children, else '<' tag attrs '>' ... '</' tag '>'
elementForm(out, tag, attrs, kids) ==
    IF Len(kids) = 0
    THEN out = <<60>> \o tag \o attrs \o <<47, 62>>
    ELSE /\ StartsWith(out, <<60>> \o tag \o attrs \o <<62>>, 0)
         /\ endsWith(out, <<60, 47>> \o tag \o <<62>>)
         /\ Len(out) >= 2 * Len(tag) + Len(attrs) + 5

\* C20: serialize writes an element with a name as <tag attrs/> exactly when
\* its children are empty or absent, and with an open and a close tag when it
\* has any child; <root/> and <root></root> both parse to an element without
\* children, and both are written as <root/>.
SelfClosingIffChildless ==
    /\ (wrapped /\ typeOf(input) = "element" /\ strOf(input, "name") # <<>>)
          => elementForm(Slice(src, Len(wrapOpen), Len(src) - Len(wrapClose)),
                         qname(prefixOf(input), strOf(input, "name")),
                         attrStr(arrOf(input, "attributes")),
                         arrOf(input, "children"))
    /\ (~wrapped /\ input \in {Str(<<60, 114, 111, 111, 116, 47, 62>>), Str(<<60, 114, 111, 111, 116, 62, 60, 47, 114, 111, 111, 116, 62>>)})
          => /\ pc \notin {"thrown", "diverged"}
             /\ (round = 1 /\ pc = "returned") => doc.children.v[1].children = Arr(<<>>)
             /\ round = 2 => src = <<60, 114, 111, 111, 116, 47, 62>>

\* parse('<root></root>') returned an element without children, and its
\* output '<root/>' has been parsed again
ExplicitCloseBecomesSelfClosing ==
    /\ round = 2
    /\ pc = "returned"
    /\ input = Str(<<60, 114, 111, 111, 116, 62, 60, 47, 114, 111, 111, 116, 62>>)
    /\ first.children.v[1].children = Arr(<<>>)
    /\ src = <<60, 114, 111, 111, 116, 47, 62>>


\* the offsets before p at which s has a line feed
lineFeedsBefore(s, p) == { i \in 0..(p - 1) : CharCodeAt(s, i) = 10 }

\* the offset at which the line of p starts: after the last line feed before
\* p, or the start of the input
lineStart(s, p) ==
    IF lineFeedsBefore(s, p) = {} THEN 0 ELSE 1 + Max(lineFeedsBefore(s, p))

\* C21: every ParseError that parse raises carries the offset of the cursor
\* where the failure was detected, the line 1 + the number of line feeds
\* before that offset, and the column 1 + the number of characters between
\* the last line feed before it (or the start of the input) and the offset;
\* so line and column are at least 1.
ErrorCarriesPosition ==
    pc = "thrown"
        => /\ error.js = "ParseError"
           /\ error.position = pos
           /\ error.line = 1 + Cardinality(lineFeedsBefore(src, pos))
           /\ error.column = 1 + (pos - lineStart(src, pos))
           /\ error.line >= 1
           /\ error.column >= 1

\* parse('<!--a\nb-->\n\n  x') has thrown at the x: offset 14, line 4,
\* column 3
ErrorOnFourthLine ==
    /\ pc = "thrown"
    /\ round = 1
    /\ input = Str(<<60, 33, 45, 45, 97, 10, 98, 45, 45, 62, 10, 10, 32, 32, 120>>)
    /\ error.position = 14
    /\ error.line = 4
    /\ error.column = 3


\* the offset after the '>' of the closing tag '</' name white-space* '>' at
\* p, the name possibly missing; 0 - 1 if there is none at p
closingTagAt(s, p) ==
    IF /\ p + 2 <= Len(s)
       /\ SubSeq(s, p + 1, p + 2) = <<60, 47>>
       /\ \E e \in (p + 3)..Len(s) :
              /\ s[e] = 62
              /\ \E w \in (p + 3)..e :
                     /\ \A i \in (p + 3)..(w - 1) : isNameChar(s[i])
                     /\ \A i \in w..(e - 1) : isXmlWhitespace(s[i])
                     /\ (w > p + 3 => isNameStartChar(s[p + 3]))
    THEN CHOOSE e \in (p + 3)..Len(s) : s[e] = 62 /\ \A i \in (p + 3)..(e - 1) : s[i] # 62
    ELSE 0 - 1

\* the Element that the frame of an open element makes when it ends now
ended(frame) == Element(frame.qname, frame.namespace, frame.attributes, frame.children)

\* C22: in the children of an element a closing tag is consumed where it is
\* met, whether or not its name is that of the open element, and it ends the
\* children of the innermost open element there: that element goes to the
\* children of the enclosing one (or of the document) and what follows is
\* parsed as content of the enclosing one; no error is raised.
ClosingTagEndsInnermost ==
    [][(pc = "children" /\ closingTagAt(src, pos) # 0 - 1)
          => /\ pos' = closingTagAt(src, pos)
             /\ pc' \in {"children", "misc3"}
             /\ Len(stack') = Len(stack) - 1
             /\ Len(stack) > 1
                   => /\ pc' = "children"
                      /\ lastChild(stack') = ended(stack[Len(stack)])
                      /\ SubSeq(stack[Len(stack) - 1].children, 1,
                                Len(stack[Len(stack) - 1].children))
                           = SubSeq(stack'[Len(stack')].children, 1,
                                    Len(stack'[Len(stack')].children) - 1)
             /\ Len(stack) = 1
                   => /\ pc' = "misc3"
                      /\ children' = Append(children, ended(stack[1]))]_vars

\* parse('<a><b>x</c>y</a>') has returned: b holds the text x, and the text
\* y is the child of a after b
MismatchedCloseEndsB ==
    /\ pc = "returned"
    /\ round = 1
    /\ input = Str(<<60, 97, 62, 60, 98, 62, 120, 60, 47, 99, 62, 121, 60, 47, 97, 62>>)
    /\ Len(doc.children.v[1].children.v) = 2
    /\ doc.children.v[1].children.v[1].name = Str(<<98>>)
    /\ doc.children.v[1].children.v[1].children.v = <<Leaf("text", <<120>>)>>
    /\ doc.children.v[1].children.v[2] = Leaf("text", <<121>>)


\* C23: a structurally broken DOCTYPE, one with unexpected tokens after its
\* name or its identifiers, is tolerated: the cursor skips to the next '<' and
\* the root element that follows is parsed, so parse returns a Document with
\* that element and raises nothing.
BrokenDoctypeIsSkipped ==
    (~wrapped /\ round = 1 /\ input.v \in BrokenDoctypeDocs)
        => /\ pc # "thrown"
           /\ pc = "returned"
                 => \E i \in 1..Len(doc.children.v) : doc.children.v[i].type = Str("element")


\* the ProcessingInstruction node with the target p and the data `data`
piNode(data) ==
    [js |-> "object", type |-> Str("processing-instruction"), target |-> Str(<<112>>),
     data |-> Str(data)]

\* C24: a processing instruction is parsed into its target and its data: no
\* data gives the empty string; otherwise the data is the text after the
\* white space that follows the target, up to '?>', without the white space at
\* its end; when '?>' is missing the data runs to the end of the input and
\* the white space at its end is trimmed as well.
PIDataIsTrimmed ==
    Ended =>
        /\ \A ws \in PILeads : \A body \in PIBodies : \A trail \in PITrails : \A end \in PIEnds :
               input = Str(piDoc(ws, body, trail, end))
                   => /\ pc = "returned"
                      /\ doc.children.v[1].children.v[1] = piNode(body)
        /\ \A end \in PIEnds :
               input = Str(piDoc(<<>>, <<>>, <<>>, end))
                   => /\ pc = "returned"
                      /\ doc.children.v[1].children.v[1] = piNode(<<>>)


\* s has str at the offset p
at(s, p, str) == p + Len(str) <= Len(s) /\ SubSeq(s, p + 1, p + Len(str)) = str

Min(S) == CHOOSE x \in S : \A y \in S : x <= y

\* the section that starts at p with `open` and ends with the first `close`
\* after it: its body and the offset after it; the rest of the input and its
\* end when no `close` follows
section(s, p, open, close) ==
    LET ends == { e \in (p + Len(open))..Len(s) : at(s, e, close) }
    IN IF ends = {}
       THEN [value |-> SubSeq(s, p + Len(open) + 1, Len(s)), pos |-> Len(s)]
       ELSE [value |-> SubSeq(s, p + Len(open) + 1, Min(ends)), pos |-> Min(ends) + Len(close)]

\* the last node of a sequence, Null if there is none
lastOf(nodes) == IF nodes = <<>> THEN Null ELSE nodes[Len(nodes)]

\* C25: the value of a comment is exactly the input between '<!--' and the
\* first '-->' after it, so with every '--' of the body, and the value of a
\* CDATA section is exactly the input between '<![CDATA[' and the first ']]>'
\* after it, nothing decoded; without the terminator the value is the rest of
\* the input and the cursor ends at the end of the input; no error is raised.
SectionsAreVerbatim ==
    /\ [][(pc = "children" /\ at(src, pos, <<60, 33, 45, 45>>))
             => /\ pc' = "children"
                /\ lastChild(stack')
                     = Leaf("comment", section(src, pos, <<60, 33, 45, 45>>, <<45, 45, 62>>).value)
                /\ pos' = section(src, pos, <<60, 33, 45, 45>>, <<45, 45, 62>>).pos]_vars
    /\ [][(pc = "children" /\ at(src, pos, <<60, 33, 91, 67, 68, 65, 84, 65, 91>>))
             => /\ pc' = "children"
                /\ lastChild(stack')
                     = Leaf("cdata", section(src, pos, <<60, 33, 91, 67, 68, 65, 84, 65, 91>>,
                                             <<93, 93, 62>>).value)
                /\ pos' = section(src, pos, <<60, 33, 91, 67, 68, 65, 84, 65, 91>>,
                                  <<93, 93, 62>>).pos]_vars
    /\ [][(pc \in {"misc1", "misc2", "misc3"}
           /\ at(src, skipWhitespace(src, pos), <<60, 33, 45, 45>>))
             => /\ pc' = pc
                /\ lastOf(children')
                     = Leaf("comment", section(src, skipWhitespace(src, pos), <<60, 33, 45, 45>>,
                                               <<45, 45, 62>>).value)
                /\ pos' = section(src, skipWhitespace(src, pos), <<60, 33, 45, 45>>,
                                  <<45, 45, 62>>).pos]_vars

\* parse('<r><!-- a -- b --></r>') has returned: the comment is ' a -- b '
CommentKeepsDashes ==
    /\ pc = "returned"
    /\ round = 1
    /\ input = Str(<<60, 114, 62, 60, 33, 45, 45, 32, 97, 32, 45, 45, 32, 98, 32, 45, 45, 62, 60, 47, 114, 62>>)
    /\ doc.children.v[1].children.v = <<Leaf("comment", <<32, 97, 32, 45, 45, 32, 98, 32>>)>>


\* C26: the internal subset of a DOCTYPE is exactly the input between '[' and
\* the first ']' that is outside the quoted literals of the subset, with its
\* markup and references as they are in the input, the DOCTYPE ends there, and
\* the serialized DocumentType has the subset, unchanged, between ' [' and ']>'.
InternalSubsetIsVerbatim ==
    Ended =>
        \A lead \in SubsetLeads : \A sub \in Subsets : \A ws \in {<<>>, <<10>>} :
            input = Str(subsetDoc(lead, sub, ws))
                => /\ pc = "returned"
                   /\ Len(doc.children.v) = 2
                   /\ doc.children.v[1].type = Str("doctype")
                   /\ doc.children.v[1].internalSubset = Str(sub)
                   /\ doc.children.v[2].type = Str("element")
                   /\ endsWith(serialize(doc.children.v[1]), <<32, 91>> \o sub \o <<93, 62>>)

\* parse('<!DOCTYPE r [<!ENTITY e "]">]><r/>') has returned: the subset is
\* '<!ENTITY e "]">' and the DOCTYPE is serialized as it was written
QuotedBracketInSubset ==
    /\ pc = "returned"
    /\ round = 1
    /\ input = Str(<<60, 33, 68, 79, 67, 84, 89, 80, 69, 32, 114, 32, 91, 60, 33, 69, 78, 84, 73, 84, 89, 32, 101, 32, 34, 93, 34, 62, 93, 62, 60, 114, 47, 62>>)
    /\ doc.children.v[1].internalSubset = Str(<<60, 33, 69, 78, 84, 73, 84, 89, 32, 101, 32, 34, 93, 34, 62>>)
    /\ serialize(doc.children.v[1]) = <<60, 33, 68, 79, 67, 84, 89, 80, 69, 32, 114, 32, 91, 60, 33, 69, 78, 84, 73, 84, 89, 32, 101, 32, 34, 93, 34, 62, 93, 62>>


\* the element of the tag in the Document of a declarationDoc
taggedElement(nested) ==
    IF nested THEN doc.children.v[1].children.v[1] ELSE doc.children.v[1]

\* C27: the declarations of a start tag apply to the whole tag: in whatever
\* order p:k="1", xmlns:p="u" and xmlns="d" are written, and whatever the
\* enclosing element binds, the element p:r is in the namespace u, the element
\* r in d and the attribute p:k in u, and the attribute sequence has the three
\* attributes in the order written, the two declarations among them in the
\* xmlns namespace with the URI as value.
DeclarationsApplyToWholeTag ==
    Ended =>
        \A name \in TagNames : \A o \in TagOrders : \A selfClosing \in BOOLEAN : \A nested \in BOOLEAN :
            input = Str(declarationDoc(name, o, selfClosing, nested))
                => /\ pc = "returned"
                   /\ taggedElement(nested).type = Str("element")
                   /\ taggedElement(nested).namespace
                        = (IF name = <<114>> THEN Str(<<100>>) ELSE Str(<<117>>))
                   /\ taggedElement(nested).attributes.v
                        = <<TagAttrs[o[1]].attr, TagAttrs[o[2]].attr, TagAttrs[o[3]].attr>>

\* parse('<o xmlns:p="w" xmlns="e"><p:r p:k="1" xmlns="d" xmlns:p="u"/></o>')
\* has returned: p:r and p:k are in u, although p is declared after them
DeclarationAfterUse ==
    /\ pc = "returned"
    /\ round = 1
    /\ input = Str(<<60, 111, 32, 120, 109, 108, 110, 115, 58, 112, 61, 34, 119, 34, 32, 120, 109, 108, 110, 115, 61, 34, 101, 34, 62, 60, 112, 58, 114, 32, 112, 58, 107, 61, 34, 49, 34, 32, 120, 109, 108, 110, 115, 61, 34, 100, 34, 32, 120, 109, 108, 110, 115, 58, 112, 61, 34, 117, 34, 47, 62, 60, 47, 111, 62>>)
    /\ doc.children.v[1].children.v[1].namespace = Str(<<117>>)
    /\ doc.children.v[1].children.v[1].attributes.v[1].namespace = Str(<<117>>)
    /\ doc.children.v[1].children.v[1].attributes.v[3].name = Str(<<112>>)
    /\ doc.children.v[1].children.v[1].attributes.v[3].value = Str(<<117>>)


\* the types of the children of a Document
kinds(kids) == [i \in 1..Len(kids) |-> kids[i].type]

\* [XmlDeclaration]? Misc* [DocumentType]? Misc* [Element]? Misc*
prologShape(k) ==
    /\ \A i \in 1..Len(k) :
           k[i] \in {Str("xml-declaration"), Str("doctype"), Str("element"), Str("comment"),
                     Str("processing-instruction")}
    /\ \A i \in 1..Len(k) : k[i] = Str("xml-declaration") => i = 1
    /\ \A i, j \in 1..Len(k) : (k[i] = Str("doctype") /\ k[j] = Str("doctype")) => i = j
    /\ \A i, j \in 1..Len(k) : (k[i] = Str("element") /\ k[j] = Str("element")) => i = j
    /\ \A i, j \in 1..Len(k) : (k[i] = Str("doctype") /\ k[j] = Str("element")) => i < j

\* the offset of the first character of s after the BOM
afterBOM(s) == IF Len(s) > 0 /\ s[1] = 65279 THEN 1 ELSE 0

\* s has '<?xml' at p, and white space or '?' after it
declarationAt(s, p) ==
    /\ at(s, p, <<60, 63, 120, 109, 108>>)
    /\ p + 5 < Len(s)
    /\ s[p + 6] \in {32, 9, 10, 13, 63}

\* C28: the children of every Document parse returns are, in this order, at
\* most one XmlDeclaration, comments and processing instructions, at most one
\* DocumentType, comments and processing instructions, at most one element,
\* comments and processing instructions.  The first child is the
\* XmlDeclaration exactly when the text parsed has '<?xml' followed by white
\* space or '?' right after the BOM; a '<?xml' that opens the text otherwise
\* (after white space, or followed by another character or nothing) is a
\* processing instruction whose target begins with xml.
DocumentHasPrologShape ==
    pc = "returned"
        => /\ prologShape(kinds(doc.children.v))
           /\ (Len(doc.children.v) > 0 /\ doc.children.v[1].type = Str("xml-declaration"))
                  <=> declarationAt(src, afterBOM(src))
           /\ (/\ ~declarationAt(src, afterBOM(src))
               /\ at(src, skipWhitespace(src, afterBOM(src)), <<60, 63, 120, 109, 108>>))
                  => /\ doc.children.v[1].type = Str("processing-instruction")
                     /\ SubSeq(doc.children.v[1].target.v, 1, 3) = <<120, 109, 108>>

\* parse('<?xml-stylesheet href="a"?><r/>') has returned: a processing
\* instruction with the target xml-stylesheet, and r
StylesheetIsInstruction ==
    /\ pc = "returned"
    /\ round = 1
    /\ input = Str(<<60, 63, 120, 109, 108, 45, 115, 116, 121, 108, 101, 115, 104, 101, 101, 116, 32, 104, 114, 101, 102, 61, 34, 97, 34, 63, 62, 60, 114, 47, 62>>)
    /\ kinds(doc.children.v) = <<Str("processing-instruction"), Str("element")>>
    /\ doc.children.v[1].target = Str(<<120, 109, 108, 45, 115, 116, 121, 108, 101, 115, 104, 101, 101, 116>>)


\* the (name, value) of each attribute of a sequence
pairs(attrs) == [i \in 1..Len(attrs) |-> <<attrs[i].name.v, attrs[i].value.v>>]

\* C29: a start tag is read to its end whatever its attributes look like:
\* characters that cannot start a name are skipped, the '=' may be missing, a
\* value in single or double quotes ends at the same quote, a value without
\* quotes ends before the next white space, '>' or '/>', and each name read
\* gives one attribute, in the order written, equal names included.
AttributesAreTolerant ==
    Ended =>
        \A row \in AttrRows : \A close \in TagCloses :
            input = Str(<<60, 114>> \o row.text \o close)
                => /\ pc = "returned"
                   /\ Len(doc.children.v) = 1
                   /\ doc.children.v[1].name = Str(<<114>>)
                   /\ doc.children.v[1].children.v = <<>>
                   /\ pairs(doc.children.v[1].attributes.v) = row.attrs

\* parse('<r a='x' a="y" a='x'/>') has returned: r has the three attributes
DuplicateAttributesKept ==
    /\ pc = "returned"
    /\ round = 1
    /\ input = Str(<<60, 114, 32, 97, 61, 39, 120, 39, 32, 97, 61, 34, 121, 34, 32, 97, 61, 39, 120, 39, 47, 62>>)
    /\ pairs(doc.children.v[1].attributes.v) = <<<<<<97>>, <<120>>>>, <<<<97>>, <<121>>>>, <<<<97>>, <<120>>>>>>


\* C30: in every state of a parse the cursor is an offset of the text being
\* parsed, from 0 to its length, and no step of a parse moves it back; this
\* holds as well after an input that ends inside a quoted value, a comment, a
\* CDATA section, a processing instruction, a DOCTYPE, a reference or a tag.
CursorMovesForwardInBounds ==
    /\ [](0 <= pos /\ pos <= Len(src))
    /\ [][round' = round => pos' >= pos]_vars

\* parse('<r a="x') has returned r with a = 'x', the cursor at the end of the
\* input
CursorStopsAtEnd ==
    /\ pc = "returned"
    /\ round = 1
    /\ input = Str(<<60, 114, 32, 97, 61, 34, 120>>)
    /\ pos = 7
    /\ pos = Len(src)
    /\ doc.children.v[1].attributes.v[1].value = Str(<<120>>)

=============================================================================
